---- MODULE Spec2Model ----
(***************************************************************************)
(* A model of the uringKV storage engine (SberTech Tasks/Task_2): the      *)
(* write-ahead log with segment rotation and page-skipping recovery, the   *)
(* memtable, the SST table format with block index and Bloom filter, the   *)
(* size-tiered compactor, and the engine that sequences them.              *)
(*                                                                         *)
(* Byte strings are modelled by small integers: a key is a one-byte string *)
(* (so byte-wise comparison is integer comparison), a value is one of      *)
(* three byte strings (empty, short, long) whose lengths are ValLen.       *)
(* A checksum is modelled by the pair <<algorithm, covered fields>>, so it *)
(* verifies exactly when the same algorithm is run over unchanged fields.  *)
(***************************************************************************)
EXTENDS Integers, Sequences, FiniteSets, TLC

(***************************************************************************)
(* Bounds of the model and the configuration the engine is built with.     *)
(***************************************************************************)
NumKeys == 2
MaxOps == 3
NumProcs == 2
memtable_size == 90
wal_segment_size == 12288
min_threshold == 2

Keys == 1..NumKeys
Values == {0, 1, 2}
Procs == 1..NumProcs
Algorithms == {"CRC32", "XXH64"}
size_ratio == <<6, 5>>

(***************************************************************************)
(* Program constants.                                                      *)
(***************************************************************************)
PAGE_SIZE == 4096
WAL_HEADER_SIZE == 32
MIN_RECOVER_HEADER == 24
SST_ENTRY_HEADER == 12
HEADER_SIZE == 64
DATA_BLOCK_SIZE == 65536
MAX_KEY_LEN == 65536
MAX_VALUE_LEN == 1048576
MEMTABLE_ENTRY_SIZE == 40
SST_MAGIC == 1397969990
SST_VERSION == 1
MAX_BLOCK_SIZE == 4194304
INDEX_ENTRY_FIXED == 16
BLOOM_HEADER_LEN == 16
OpPut == 1
OpDelete == 2

(***************************************************************************)
(* Byte strings.                                                           *)
(***************************************************************************)
KeyLen(k) == 1

\* Values 0, 1 and 2 are the empty, a short and a long byte string; 3 and 4
\* fill a log record to exactly one page and to one byte more; 5 is one byte
\* longer than the decoders accept and 6 is longer than a data block.
ValLen(v) ==
  IF v = 0 THEN 0 ELSE IF v = 1 THEN 6 ELSE IF v = 2 THEN 40000
  ELSE IF v = 3 THEN 4063 ELSE IF v = 4 THEN 4064
  ELSE IF v = 5 THEN MAX_VALUE_LEN + 1 ELSE 70000

Some(v) == <<v>>

None == <<>>

IsSome(o) == Len(o) = 1

Max(a, b) == IF a >= b THEN a ELSE b

Range(s) == {s[i] : i \in DOMAIN s}

RECURSIVE SumSeq(_)
SumSeq(s) == IF s = <<>> THEN 0 ELSE Head(s) + SumSeq(Tail(s))

(***************************************************************************)
(* checksum.rs: compute and verify.                                        *)
(***************************************************************************)
Compute(algo, data) == <<algo, data>>

Verify(algo, data, expected) == Compute(algo, data) = expected

(***************************************************************************)
(* The state of the program and the observations of its histories; their   *)
(* meaning is given with the engine below.                                 *)
(***************************************************************************)
VARIABLES checksum_algorithm, wal, memtable, sst, sequence, running, phase,
          ret, recovered, last, log, acked, restarts, damages, procs, group_commit,
          agent, compactor, reader

(***************************************************************************)
(* entry.rs: WalEntry.                                                     *)
(***************************************************************************)
\* SystemTime::now is a coarse clock: it reads the number of restarts of the
\* engine so far.
new_put(key, value, seq) ==
  [timestamp |-> restarts, sequence |-> seq, key |-> key, value |-> value, op_type |-> OpPut]

new_delete(key, seq) ==
  [timestamp |-> restarts, sequence |-> seq, key |-> key, value |-> 0, op_type |-> OpDelete]

\* A faulty alignment: the buffer is cut at the page boundary below.
AlignDown(n) == (n \div PAGE_SIZE) * PAGE_SIZE

AlignUp(n) == ((n + PAGE_SIZE - 1) \div PAGE_SIZE) * PAGE_SIZE

WalDataSize(key, value) == WAL_HEADER_SIZE + KeyLen(key) + ValLen(value)

WalSerializedSize(entry) == AlignUp(WalDataSize(entry.key, entry.value))

WalCovered(bytes) ==
  <<bytes.timestamp, bytes.sequence, bytes.key_len, bytes.value_len, bytes.op,
    bytes.key, bytes.value>>

WalSerialize(entry, algo) ==
  LET body == [timestamp |-> entry.timestamp,
               sequence |-> entry.sequence,
               key_len |-> KeyLen(entry.key),
               value_len |-> ValLen(entry.value),
               op |-> entry.op_type,
               key |-> entry.key,
               value |-> entry.value]
  IN body @@ [checksum |-> Compute(algo, WalCovered(body)),
              size |-> AlignUp(WAL_HEADER_SIZE + KeyLen(entry.key) + ValLen(entry.value))]

\* The result of WalEntry::deserialize on `bytes` when `avail` bytes follow the
\* cursor: ok = FALSE stands for every Err the function returns.
WalDeserialize(bytes, avail, algo) ==
  IF avail < WAL_HEADER_SIZE THEN [ok |-> FALSE]
  ELSE IF bytes.key_len > MAX_KEY_LEN THEN [ok |-> FALSE]
  ELSE IF bytes.value_len > MAX_VALUE_LEN THEN [ok |-> FALSE]
  ELSE IF bytes.op \notin {OpPut, OpDelete} THEN [ok |-> FALSE]
  ELSE IF WAL_HEADER_SIZE + bytes.key_len + bytes.value_len > avail THEN [ok |-> FALSE]
  ELSE IF ~Verify(algo, WalCovered(bytes), bytes.checksum) THEN [ok |-> FALSE]
  ELSE [ok |-> TRUE,
        entry |-> [timestamp |-> bytes.timestamp, sequence |-> bytes.sequence,
                   key |-> bytes.key, value |-> bytes.value, op_type |-> bytes.op]]

(***************************************************************************)
(* wal/mod.rs: WalSegment.  A segment file on disk is its length in bytes  *)
(* and the serialized records it holds, each at its byte offset.           *)
(***************************************************************************)
EmptyFile == [len |-> 0, recs |-> {}]

RECURSIVE BufLen(_)
BufLen(buffer) == IF buffer = <<>> THEN 0 ELSE Head(buffer).size + BufLen(Tail(buffer))

SegCreate(dir, file_id) ==
  [seg |-> [file_id |-> file_id, offset |-> 0, buffer |-> <<>>],
   dir |-> IF file_id \in DOMAIN dir THEN dir ELSE dir @@ (file_id :> EmptyFile)]

SegOpen(dir, file_id) ==
  [file_id |-> file_id, offset |-> dir[file_id].len, buffer |-> <<>>]

SegIsFull(seg) == seg.offset + BufLen(seg.buffer) >= wal_segment_size

\* The records of `buffer` as they land in the file when written at `base`.
Placed(buffer, base) ==
  {[off |-> base + BufLen(SubSeq(buffer, 1, i - 1)), bytes |-> buffer[i]] :
     i \in DOMAIN buffer}

\* WalSegment::flush: write the buffer at self.offset, sync_all, advance.
SegFlush(w) ==
  LET seg == w.current_segment
      file == w.dir[seg.file_id]
      n == BufLen(seg.buffer)
  IN IF seg.buffer = <<>> THEN w
     ELSE [w EXCEPT
             !.dir[seg.file_id] =
                [len |-> Max(file.len, seg.offset + n),
                 recs |-> file.recs \cup Placed(seg.buffer, seg.offset)],
             !.current_segment.offset = seg.offset + n,
             !.current_segment.buffer = <<>>]

\* WalSegment::flush when write_all has succeeded and sync_all returns an
\* error: the bytes are in the file, offset and buffer are as before.
SegWriteOnly(w) ==
  LET seg == w.current_segment
      file == w.dir[seg.file_id]
  IN [w EXCEPT !.dir[seg.file_id] =
                  [len |-> Max(file.len, seg.offset + BufLen(seg.buffer)),
                   recs |-> file.recs \cup Placed(seg.buffer, seg.offset)]]

(***************************************************************************)
(* wal/mod.rs: WalManager.                                                 *)
(***************************************************************************)
RECURSIVE SortedIds(_)
SortedIds(S) ==
  IF S = {} THEN <<>>
  ELSE LET m == CHOOSE x \in S : \A y \in S : x <= y
       IN <<m>> \o SortedIds(S \ {m})

MaxId(S) == IF S = {} THEN 0 ELSE CHOOSE x \in S : \A y \in S : y <= x

\* WalManager::new over the wal directory `dir`.
WalNew(dir) ==
  LET segments == SortedIds(DOMAIN dir)
      next_id == MaxId(DOMAIN dir) + 1
      opened == SegOpen(dir, segments[Len(segments)])
      made == SegCreate(dir, next_id)
      reuse == segments # <<>> /\ ~SegIsFull(opened)
  IN [current_segment |-> IF reuse THEN opened ELSE made.seg,
      segments |-> segments,
      next_segment_id |-> next_id + 1,
      dir |-> IF reuse THEN dir ELSE made.dir]

\* A faulty rotate_segment: the old segment is replaced without being flushed.
RotateSegmentNoFlush(w) ==
  LET made == SegCreate(w.dir, w.next_segment_id)
  IN [current_segment |-> made.seg,
      segments |-> Append(w.segments, w.current_segment.file_id),
      next_segment_id |-> w.next_segment_id + 1,
      dir |-> made.dir]

\* WalManager::rotate_segment.
RotateSegment(w) ==
  LET f == SegFlush(w)
      made == SegCreate(f.dir, f.next_segment_id)
  IN [current_segment |-> made.seg,
      segments |-> Append(f.segments, f.current_segment.file_id),
      next_segment_id |-> f.next_segment_id + 1,
      dir |-> made.dir]

\* WalManager::append run without interleaving: the new state and the offset.
WalAppend(w, entry, algo) ==
  LET w1 == IF SegIsFull(w.current_segment) THEN RotateSegment(w) ELSE w
      seg == w1.current_segment
  IN [wal |-> [w1 EXCEPT !.current_segment.buffer =
                            Append(seg.buffer, WalSerialize(entry, algo))],
      offset |-> seg.offset + BufLen(seg.buffer)]

\* WalManager::sync run without interleaving: register, flush, fdatasync,
\* commit_all (the rendezvous is empty again when it returns).
\* A faulty sync: the segment is flushed and replaced by a new one.
WalSyncRotates(w) == RotateSegment(w)

WalSync(w) == SegFlush(w)

DecodeAt(file, offset, algo) ==
  IF \E r \in file.recs : r.off = offset
  THEN WalDeserialize((CHOOSE r \in file.recs : r.off = offset).bytes,
                      file.len - offset, algo)
  ELSE [ok |-> FALSE]

\* A faulty page skip: the cursor skips one page too many.
NextPageSkipsTwo(offset) == ((offset \div PAGE_SIZE) + 2) * PAGE_SIZE

NextPage(offset) == ((offset \div PAGE_SIZE) + 1) * PAGE_SIZE

RECURSIVE RecoverFrom(_, _, _)
RecoverFrom(file, offset, algo) ==
  IF offset >= file.len THEN <<>>
  ELSE IF file.len - offset < MIN_RECOVER_HEADER THEN <<>>
  ELSE LET d == DecodeAt(file, offset, algo)
       IN IF d.ok
          THEN <<d.entry>> \o RecoverFrom(file, offset + WalSerializedSize(d.entry), algo)
          ELSE RecoverFrom(file, NextPage(offset), algo)

\* WalManager::recover_segment.
RecoverSegment(file, algo) == RecoverFrom(file, 0, algo)

RECURSIVE RecoverList(_, _, _)
RecoverList(dir, ids, algo) ==
  IF ids = <<>> THEN <<>>
  ELSE RecoverSegment(dir[Head(ids)], algo) \o RecoverList(dir, Tail(ids), algo)

\* A faulty recover: only the current segment is replayed.
WalRecoverCurrentOnly(w, algo) ==
  RecoverSegment(w.dir[w.current_segment.file_id], algo)

\* WalManager::recover: every listed segment, then the current segment.
WalRecover(w, algo) ==
  RecoverList(w.dir, w.segments, algo)
    \o RecoverSegment(w.dir[w.current_segment.file_id], algo)

(***************************************************************************)
(* memtable/mod.rs: Memtable.  data maps the keys present to their entry.  *)
(***************************************************************************)
MemNew == [data |-> [k \in Keys |-> None], size |-> 0]

MemPut(m, key, value, seq) ==
  [data |-> [m.data EXCEPT ![key] = Some([value |-> Some(value), sequence |-> seq])],
   size |-> m.size + KeyLen(key) + ValLen(value) + MEMTABLE_ENTRY_SIZE]

MemDelete(m, key, seq) ==
  [data |-> [m.data EXCEPT ![key] = Some([value |-> None, sequence |-> seq])],
   size |-> m.size + KeyLen(key) + MEMTABLE_ENTRY_SIZE]

\* Memtable::get: Some(entry) or None.
MemGet(m, key) == m.data[key]

MemIsFull(m) == m.size >= memtable_size

MemClear(m) == MemNew

\* A faulty iteration: the keys are visited in descending order.
RECURSIVE SeqOfKeysDescending(_, _)
SeqOfKeysDescending(S, f) ==
  IF S = {} THEN <<>>
  ELSE LET k == CHOOSE x \in S : \A y \in S : x >= y
       IN <<f[k]>> \o SeqOfKeysDescending(S \ {k}, f)

RECURSIVE SeqOfKeys(_, _)
SeqOfKeys(S, f) ==
  IF S = {} THEN <<>>
  ELSE LET k == CHOOSE x \in S : \A y \in S : x <= y
       IN <<f[k]>> \o SeqOfKeys(S \ {k}, f)

\* Memtable::scan: the live entries with start <= key < end, ascending.
MemScan(m, start, end) ==
  LET S == {k \in Keys : /\ IsSome(m.data[k])
                         /\ k >= start /\ k < end
                         /\ IsSome(m.data[k][1].value)}
  IN SeqOfKeys(S, [k \in S |-> <<k, m.data[k][1].value[1]>>])

\* Memtable::get_all_entries: every entry, tombstones included, ascending.
MemGetAllEntries(m) ==
  LET S == {k \in Keys : IsSome(m.data[k])}
  IN SeqOfKeys(S, [k \in S |-> <<k, m.data[k][1].value>>])

(***************************************************************************)
(* sst/bloom.rs: BloomFilter.  BloomHash stands for DefaultHasher over     *)
(* (key, seed); bits is the set of bit indexes that are set.               *)
(***************************************************************************)
OptimalNumBits(capacity) == (9585059 * capacity + 999999) \div 1000000

OptimalNumHashes(capacity, num_bits) ==
  Max((693147 * num_bits + 1000000 * capacity - 1) \div (1000000 * capacity), 1)

BloomHash(key, seed) == key * 7919 + seed * 104729 + key * seed * 31

BloomNew(capacity) ==
  [num_bits |-> OptimalNumBits(capacity),
   num_hashes |-> OptimalNumHashes(capacity, OptimalNumBits(capacity)),
   bits |-> {}]

\* A faulty insert: only the bit of the first hash function is set.
BloomInsertOnce(b, key) ==
  [b EXCEPT !.bits = @ \cup {BloomHash(key, 0) % b.num_bits}]

BloomInsert(b, key) ==
  [b EXCEPT !.bits = @ \cup {BloomHash(key, i) % b.num_bits : i \in 0..(b.num_hashes - 1)}]

BloomMayContain(b, key) ==
  \A i \in 0..(b.num_hashes - 1) : (BloomHash(key, i) % b.num_bits) \in b.bits

\* BloomFilter::serialize: num_bits, num_hashes, the length of the bit array in
\* bytes and the bit array.
BloomSerialize(b) ==
  [num_bits |-> b.num_bits, num_hashes |-> b.num_hashes,
   bits_len |-> (b.num_bits + 7) \div 8, bits |-> b.bits]

\* BloomFilter::deserialize of a region that holds the whole filter: the bit
\* array is the first bits_len bytes after the header.
BloomDeserialize(data) ==
  [num_bits |-> data.num_bits, num_hashes |-> data.num_hashes,
   bits |-> {i \in data.bits : i \div 8 < data.bits_len}]

BloomSerializedLen(b) == BLOOM_HEADER_LEN + ((b.num_bits + 7) \div 8)

RECURSIVE BloomOf(_, _)
BloomOf(entries, b) ==
  IF entries = <<>> THEN b ELSE BloomOf(Tail(entries), BloomInsert(b, Head(entries)[1]))

(***************************************************************************)
(* entry.rs: SstEntry.  An entry is <<key, value>> with value an Option.   *)
(***************************************************************************)
SstCovered(bytes) == <<bytes.key_len, bytes.value_len, bytes.key, bytes.value>>

SstSerialize(key, value, algo) ==
  LET body == [key_len |-> KeyLen(key),
               value_len |-> IF IsSome(value) THEN ValLen(value[1]) ELSE 0,
               key |-> key,
               value |-> IF IsSome(value) THEN value[1] ELSE 0]
  IN body @@ [checksum |-> Compute(algo, SstCovered(body)),
              size |-> SST_ENTRY_HEADER + body.key_len + body.value_len]

SstDeserialize(bytes, avail, algo) ==
  IF avail < SST_ENTRY_HEADER THEN [ok |-> FALSE]
  ELSE IF bytes.key_len > MAX_KEY_LEN THEN [ok |-> FALSE]
  ELSE IF bytes.value_len > MAX_VALUE_LEN THEN [ok |-> FALSE]
  ELSE IF SST_ENTRY_HEADER + bytes.key_len + bytes.value_len > avail THEN [ok |-> FALSE]
  ELSE IF ~Verify(algo, SstCovered(bytes), bytes.checksum) THEN [ok |-> FALSE]
  ELSE [ok |-> TRUE,
        key |-> bytes.key,
        value |-> IF bytes.value_len > 0 THEN Some(bytes.value) ELSE None]

\* SstEntry::serialized_size of a decoded entry.
SstSerializedSize(key, value) ==
  SST_ENTRY_HEADER + KeyLen(key) + (IF IsSome(value) THEN ValLen(value[1]) ELSE 0)

(***************************************************************************)
(* sst/mod.rs: SstFile, SstManager.  The manager is sst_files (the         *)
(* TableSet), next_id and dir, the files of the sst directory by id.       *)
(***************************************************************************)
Ok(v) == [err |-> FALSE, value |-> v]

Err == [err |-> TRUE, value |-> None]

InRange(file, key) == key >= file.min_key /\ key <= file.max_key

MayContain(file, key) == BloomMayContain(file.bloom_filter, key)

RECURSIVE PackBlocks(_, _, _)
PackBlocks(recs, current_block, done) ==
  IF recs = <<>>
  THEN IF current_block = <<>> THEN done ELSE Append(done, current_block)
  ELSE IF current_block # <<>> /\ BufLen(current_block) + Head(recs).size > DATA_BLOCK_SIZE
       THEN PackBlocks(Tail(recs), <<Head(recs)>>, Append(done, current_block))
       ELSE PackBlocks(Tail(recs), Append(current_block, Head(recs)), done)

RECURSIVE BlocksLen(_)
BlocksLen(packed) ==
  IF packed = <<>> THEN 0 ELSE BufLen(Head(packed)) + BlocksLen(Tail(packed))

RECURSIVE IndexLen(_)
IndexLen(index) ==
  IF index = <<>> THEN 0
  ELSE INDEX_ENTRY_FIXED + KeyLen(Head(index).first_key) + IndexLen(Tail(index))

\* SstManager::write_sst on a non-empty entry list: the file written, its
\* metadata pushed on sst_files.
WriteSst(s, entries, algo) ==
  LET file_id == s.next_id
      min_key == entries[1][1]
      max_key == entries[Len(entries)][1]
      bloom_filter == BloomOf(entries, BloomNew(Len(entries)))
      data_start == HEADER_SIZE + KeyLen(min_key) + KeyLen(max_key)
      recs == [i \in DOMAIN entries |-> SstSerialize(entries[i][1], entries[i][2], algo)]
      packed == PackBlocks(recs, <<>>, <<>>)
      index == [i \in DOMAIN packed |->
                  [first_key |-> packed[i][1].key,
                   offset |-> data_start + BlocksLen(SubSeq(packed, 1, i - 1)),
                   size |-> BufLen(packed[i])]]
      bloom_offset == data_start + BlocksLen(packed)
      index_offset == bloom_offset + BloomSerializedLen(bloom_filter)
      file_size == index_offset + IndexLen(index)
      header == [magic |-> SST_MAGIC, version |-> SST_VERSION,
                 num_entries |-> Len(entries),
                 index_offset |-> index_offset, bloom_offset |-> bloom_offset,
                 min_key_len |-> KeyLen(min_key), max_key_len |-> KeyLen(max_key)]
      disk_file == [header |-> header, min_key |-> min_key, max_key |-> max_key,
                    blocks |-> [i \in DOMAIN packed |->
                                  [offset |-> index[i].offset, recs |-> packed[i]]],
                    bloom |-> BloomSerialize(bloom_filter), index |-> index, len |-> file_size]
      sst_file == [id |-> file_id, min_key |-> min_key, max_key |-> max_key,
                   num_entries |-> Len(entries), size |-> file_size,
                   bloom_filter |-> bloom_filter]
  IN [sst |-> [sst_files |-> Append(s.sst_files, sst_file),
               next_id |-> s.next_id + 1,
               dir |-> (file_id :> disk_file) @@ s.dir],
      file |-> sst_file]

\* The index entry SstManager::read picks: the last one of the leading run of
\* entries with first_key <= key (0 when there is none).
TargetBlock(index, key) ==
  LET run == {i \in DOMAIN index : \A j \in 1..i : key >= index[j].first_key}
  IN IF run = {} THEN 0 ELSE CHOOSE i \in run : \A j \in run : j <= i

BlockAt(f, offset) ==
  LET hit == {i \in DOMAIN f.blocks : f.blocks[i].offset = offset}
  IN IF hit = {} THEN <<>> ELSE f.blocks[CHOOSE i \in hit : TRUE].recs

\* The entry loop of SstManager::read over one data block.
RECURSIVE FindInBlock(_, _, _, _)
FindInBlock(recs, avail, key, algo) ==
  IF recs = <<>> \/ avail < SST_ENTRY_HEADER THEN Ok(None)
  ELSE LET d == SstDeserialize(Head(recs), avail, algo)
       IN IF ~d.ok THEN Ok(None)
          ELSE IF d.key = key THEN Ok(d.value)
          ELSE FindInBlock(Tail(recs), avail - SstSerializedSize(d.key, d.value), key, algo)

\* SstManager::read.
SstRead(dir, file, key, algo) ==
  IF ~MayContain(file, key) THEN Ok(None)
  ELSE IF ~InRange(file, key) THEN Ok(None)
  ELSE IF file.id \notin DOMAIN dir THEN Err
  ELSE LET f == dir[file.id]
           t == TargetBlock(f.index, key)
       IN IF f.header.magic # SST_MAGIC THEN Err
          ELSE IF t = 0 THEN Ok(None)
          ELSE IF f.index[t].size > MAX_BLOCK_SIZE THEN Err
          ELSE FindInBlock(BlockAt(f, f.index[t].offset), f.index[t].size, key, algo)

\* The entry loop of SstManager::scan over one data block: err, done (a key past
\* `end` was met) and the results so far.
RECURSIVE ScanBlock(_, _, _, _, _, _)
ScanBlock(recs, avail, start, end, algo, acc) ==
  IF recs = <<>> \/ avail < SST_ENTRY_HEADER
  THEN [err |-> FALSE, done |-> FALSE, acc |-> acc]
  ELSE LET d == SstDeserialize(Head(recs), avail, algo)
       IN IF ~d.ok THEN [err |-> TRUE, done |-> TRUE, acc |-> acc]
          ELSE IF d.key >= start /\ d.key <= end
               THEN ScanBlock(Tail(recs), avail - SstSerializedSize(d.key, d.value),
                              start, end, algo,
                              IF IsSome(d.value) THEN Append(acc, <<d.key, d.value[1]>>)
                              ELSE acc)
               ELSE IF d.key > end THEN [err |-> FALSE, done |-> TRUE, acc |-> acc]
               ELSE ScanBlock(Tail(recs), avail - SstSerializedSize(d.key, d.value),
                              start, end, algo, acc)

RECURSIVE ScanBlocks(_, _, _, _, _, _)
ScanBlocks(f, i, start, end, algo, acc) ==
  IF i > Len(f.index) THEN [err |-> FALSE, value |-> acc]
  ELSE IF f.index[i].size > MAX_BLOCK_SIZE THEN [err |-> TRUE, value |-> <<>>]
  ELSE LET r == ScanBlock(BlockAt(f, f.index[i].offset), f.index[i].size,
                          start, end, algo, acc)
       IN IF r.err THEN [err |-> TRUE, value |-> <<>>]
          ELSE IF r.done THEN [err |-> FALSE, value |-> r.acc]
          ELSE ScanBlocks(f, i + 1, start, end, algo, r.acc)

\* SstManager::scan: the live entries with start <= key <= end of one file.
SstScan(dir, file, start, end, algo) ==
  IF file.id \notin DOMAIN dir THEN [err |-> TRUE, value |-> <<>>]
  ELSE IF dir[file.id].header.magic # SST_MAGIC THEN [err |-> TRUE, value |-> <<>>]
  ELSE ScanBlocks(dir[file.id], 1, start, end, algo, <<>>)

\* SstManager::get_overlapping_files.
GetOverlappingFiles(s, start, end) ==
  LET Overlaps(f) == ~(f.max_key < start \/ f.min_key > end)
  IN SelectSeq(s.sst_files, Overlaps)

\* SstManager::remove_file.
RemoveFile(sst_files, file_id) ==
  LET Keep(f) == f.id # file_id
  IN SelectSeq(sst_files, Keep)

\* The orders in which read_dir may list the files of a directory.
DirOrders(dir) ==
  {p \in [1..Cardinality(DOMAIN dir) -> DOMAIN dir] : Range(p) = DOMAIN dir}

\* SstManager::load_existing_files with read_dir listing the files in `order`.
LoadExistingFiles(dir, order) ==
  [err |-> \E id \in DOMAIN dir : dir[id].header.magic # SST_MAGIC,
   sst |-> [sst_files |-> [i \in DOMAIN order |->
                             LET f == dir[order[i]]
                             IN [id |-> order[i], min_key |-> f.min_key,
                                 max_key |-> f.max_key,
                                 num_entries |-> f.header.num_entries,
                                 size |-> f.len,
                                 bloom_filter |-> BloomDeserialize(f.bloom)]],
            next_id |-> MaxId(DOMAIN dir) + 1,
            dir |-> dir]]

(***************************************************************************)
(* compaction/mod.rs: Compactor.                                           *)
(***************************************************************************)
\* sort_by_key(|f| f.size): a stable sort, by insertion from the left.
RECURSIVE InsertBySize(_, _)
InsertBySize(sorted, f) ==
  IF sorted = <<>> THEN <<f>>
  ELSE IF Head(sorted).size <= f.size
       THEN <<Head(sorted)>> \o InsertBySize(Tail(sorted), f)
       ELSE <<f>> \o sorted

RECURSIVE SortBySize(_)
SortBySize(files) ==
  IF files = <<>> THEN <<>>
  ELSE InsertBySize(SortBySize(SubSeq(files, 1, Len(files) - 1)), files[Len(files)])

\* The sweep of select_size_tiered: groups holds the closed groups that reach
\* the threshold.
RECURSIVE Sweep(_, _, _, _, _, _)
Sweep(rest, current_group, current_size, groups, ratio, threshold) ==
  IF rest = <<>>
  THEN IF Len(current_group) >= threshold THEN Append(groups, current_group) ELSE groups
  ELSE IF Head(rest).size * ratio[2] <= ratio[1] * current_size
       THEN Sweep(Tail(rest), Append(current_group, Head(rest)), current_size,
                  groups, ratio, threshold)
       ELSE Sweep(Tail(rest), <<Head(rest)>>, Head(rest).size,
                  IF Len(current_group) >= threshold
                  THEN Append(groups, current_group) ELSE groups,
                  ratio, threshold)

\* Compactor::select_size_tiered.
SelectSizeTiered(files, ratio, threshold) ==
  IF Len(files) < threshold THEN <<>>
  ELSE LET sorted_files == SortBySize(files)
           groups == Sweep(Tail(sorted_files), <<sorted_files[1]>>, sorted_files[1].size,
                           <<>>, ratio, threshold)
       IN IF groups # <<>> THEN groups[1] ELSE <<>>

\* Compactor::select_files_for_compaction_impl (size-tiered strategy).
SelectFilesForCompaction(s) ==
  IF s.sst_files = <<>> THEN <<>>
  ELSE SelectSizeTiered(s.sst_files, size_ratio, min_threshold)

RECURSIVE Flatten(_)
Flatten(blocks) ==
  IF blocks = <<>> THEN <<>> ELSE Head(blocks).recs \o Flatten(Tail(blocks))

\* The entry loop of read_all_entries_from_sst; it decodes with CRC32 whatever
\* algorithm the store is configured with, and stops at the first failure.
RECURSIVE ParseEntries(_, _, _, _)
ParseEntries(recs, avail, num_entries, acc) ==
  IF recs = <<>> \/ avail <= 0 \/ Len(acc) >= num_entries \/ avail < SST_ENTRY_HEADER
  THEN acc
  ELSE LET d == SstDeserialize(Head(recs), avail, "CRC32")
       IN IF ~d.ok THEN acc
          ELSE ParseEntries(Tail(recs), avail - SstSerializedSize(d.key, d.value),
                            num_entries, Append(acc, <<d.key, d.value>>))

\* Compactor::read_all_entries_from_sst.
ReadAllEntriesFromSst(dir, file) ==
  IF file.id \notin DOMAIN dir THEN [err |-> TRUE, value |-> <<>>]
  ELSE LET f == dir[file.id]
           data_start == HEADER_SIZE + f.header.min_key_len + f.header.max_key_len
       IN IF f.header.bloom_offset <= data_start \/ f.header.bloom_offset > f.len
          THEN [err |-> TRUE, value |-> <<>>]
          ELSE [err |-> FALSE,
                value |-> ParseEntries(Flatten(f.blocks),
                                       f.header.bloom_offset - data_start,
                                       f.header.num_entries, <<>>)]

\* The merged map of merge_sst_files_impl: for each key the value of the input
\* with the highest index that holds it (None when no input holds it).
MergedEntries(inputs) ==
  [k \in Keys |->
     LET holders == {i \in DOMAIN inputs : \E j \in DOMAIN inputs[i] : inputs[i][j][1] = k}
     IN IF holders = {} THEN None
        ELSE LET i == CHOOSE x \in holders : \A y \in holders : y <= x
                 j == CHOOSE x \in DOMAIN inputs[i] :
                        /\ inputs[i][x][1] = k
                        /\ \A y \in DOMAIN inputs[i] : inputs[i][y][1] = k => x <= y
             IN Some(inputs[i][j][2])]

\* A faulty removal: the inputs stay in the TableSet and on disk.
RemoveFilesKeepsAll(s, files) == s

RECURSIVE RemoveFiles(_, _)
RemoveFiles(s, files) ==
  IF files = <<>> THEN s
  ELSE RemoveFiles([s EXCEPT !.sst_files = RemoveFile(s.sst_files, Head(files).id),
                             !.dir = [id \in DOMAIN s.dir \ {Head(files).id} |-> s.dir[id]]],
                   Tail(files))

\* Compactor::merge_sst_files_impl on the selected files.
MergeSstFilesImpl(s, files, algo) ==
  LET reads == [i \in DOMAIN files |-> ReadAllEntriesFromSst(s.dir, files[i])]
      merged == MergedEntries([i \in DOMAIN files |-> reads[i].value])
      live == {k \in Keys : IsSome(merged[k]) /\ IsSome(merged[k][1])}
      final_entries == SeqOfKeys(live, [k \in live |-> <<k, merged[k][1]>>])
  IN IF files = <<>> \/ \E i \in DOMAIN files : reads[i].err
     THEN [err |-> TRUE, sst |-> s]
     ELSE IF final_entries = <<>>
          THEN [err |-> TRUE, sst |-> RemoveFiles(s, files)]
          ELSE [err |-> FALSE,
                sst |-> RemoveFiles(WriteSst(s, final_entries, algo).sst, files)]

(***************************************************************************)
(* engine.rs: StorageEngine.                                               *)
(*                                                                         *)
(* State of the program: the checksum algorithm of the configuration, the  *)
(* WalManager with the wal directory, the Memtable, the SstManager with    *)
(* the sst directory, the sequence counter, the compactor's running flag   *)
(* and whether an engine is open on the directory.                         *)
(* Observations: ret is the result of the last operation, recovered the    *)
(* list the last WalManager::recover returned, last the latest             *)
(* acknowledged mutation of each key, log the records appended so far in   *)
(* append order, acked the records whose put or delete returned Ok,        *)
(* restarts and damages count restarts and injected faults.                *)
(* For concurrent callers: procs is each caller's position in put/delete   *)
(* with its locals, group_commit the rendezvous of WalManager::sync.       *)
(***************************************************************************)
vars == <<checksum_algorithm, wal, memtable, sst, sequence, running, phase,
          ret, recovered, last, log, acked, restarts, damages, procs, group_commit,
          agent, compactor, reader>>

callers == <<procs, group_commit>>

Idle == [pc |-> "idle"]

NoWaiters == [pending |-> {}]

MaxRestarts == 1
MaxDamages == 2
MaxFiles == 4
MaxTornRestarts == 2
MaxFlushOps == 2
TickMs == 100
MaxNow == 700
Ttls == {100, 300}
TTL_SWEEP_MS == 500
FileSizes == {100, 110, 1000, 1100}

NoRet == [op |-> "none"]

\* StorageEngine::flush_memtable.
FlushMemtable(m, s, algo) ==
  LET entries == MemGetAllEntries(m)
  IN [memtable |-> MemClear(m),
      sst |-> IF entries # <<>> THEN WriteSst(s, entries, algo).sst ELSE s]

\* The tail of put and delete: flush when the memtable is full.
FlushIfFull(m, s, algo) ==
  IF MemIsFull(m) THEN FlushMemtable(m, s, algo) ELSE [memtable |-> m, sst |-> s]

\* The table walk of StorageEngine::get over sst_files[1..i], newest first.
RECURSIVE GetFromFiles(_, _, _, _)
GetFromFiles(s, i, key, algo) ==
  IF i = 0 THEN Ok(None)
  ELSE LET f == s.sst_files[i]
       IN IF InRange(f, key) /\ MayContain(f, key)
          THEN LET r == SstRead(s.dir, f, key, algo)
               IN IF r.err THEN Err
                  ELSE IF IsSome(r.value) THEN r
                  ELSE GetFromFiles(s, i - 1, key, algo)
          ELSE GetFromFiles(s, i - 1, key, algo)

\* The tables of which the walk of StorageEngine::get over sst_files[1..i]
\* reads a data block: SstManager::read gets as far as read_exact on the
\* block the index names.
RECURSIVE BlocksRead(_, _, _, _)
BlocksRead(s, i, key, algo) ==
  IF i = 0 THEN {}
  ELSE LET f == s.sst_files[i]
       IN IF InRange(f, key) /\ MayContain(f, key)
          THEN LET r == SstRead(s.dir, f, key, algo)
                   read == /\ f.id \in DOMAIN s.dir
                           /\ s.dir[f.id].header.magic = SST_MAGIC
                           /\ TargetBlock(s.dir[f.id].index, key) # 0
                           /\ s.dir[f.id].index[TargetBlock(s.dir[f.id].index, key)].size
                                <= MAX_BLOCK_SIZE
               IN (IF read THEN {f.id} ELSE {})
                  \cup (IF r.err \/ IsSome(r.value) THEN {}
                        ELSE BlocksRead(s, i - 1, key, algo))
          ELSE BlocksRead(s, i - 1, key, algo)

\* StorageEngine::get.
EngineGet(m, s, key, algo) ==
  IF IsSome(MemGet(m, key)) THEN Ok(MemGet(m, key)[1].value)
  ELSE GetFromFiles(s, Len(s.sst_files), key, algo)

\* The table part of StorageEngine::scan: the scans of the overlapping files,
\* concatenated in TableSet order.
RECURSIVE ScanFiles(_, _, _, _, _)
ScanFiles(dir, files, start, end, algo) ==
  IF files = <<>> THEN [err |-> FALSE, value |-> <<>>]
  ELSE LET r == SstScan(dir, Head(files), start, end, algo)
           rest == ScanFiles(dir, Tail(files), start, end, algo)
       IN IF r.err \/ rest.err THEN [err |-> TRUE, value |-> <<>>]
          ELSE [err |-> FALSE, value |-> r.value \o rest.value]

\* BTreeMap insertion of a list of pairs: the last pair of a key wins.
InsertAll(merged, pairs) ==
  [k \in Keys |->
     LET hits == {i \in DOMAIN pairs : pairs[i][1] = k}
     IN IF hits = {} THEN merged[k]
        ELSE Some(pairs[CHOOSE i \in hits : \A j \in hits : j <= i][2])]

\* StorageEngine::scan.
EngineScan(m, s, start, end, algo) ==
  LET memtable_entries == MemScan(m, start, end)
      scanned == ScanFiles(s.dir, GetOverlappingFiles(s, start, end), start, end, algo)
      merged == InsertAll(InsertAll([k \in Keys |-> None], scanned.value),
                          memtable_entries)
      kept == {k \in Keys : /\ IsSome(merged[k])
                            /\ ~(IsSome(MemGet(m, k)) /\ ~IsSome(MemGet(m, k)[1].value))}
  IN IF scanned.err THEN [err |-> TRUE, value |-> <<>>]
     ELSE [err |-> FALSE, value |-> SeqOfKeys(kept, [k \in kept |-> <<k, merged[k][1]>>])]

\* The replay loop of StorageEngine::recover.
RECURSIVE Replay(_, _)
Replay(m, entries) ==
  IF entries = <<>> THEN m
  ELSE LET e == Head(entries)
       IN Replay(IF e.op_type = OpPut THEN MemPut(m, e.key, e.value, e.sequence)
                 ELSE MemDelete(m, e.key, e.sequence),
                 Tail(entries))

\* A faulty maximum: the sequence number of the first recovered record.
MaxSeqFirst(entries) == IF entries = <<>> THEN 0 ELSE Head(entries).sequence

RECURSIVE MaxSeq(_)
MaxSeq(entries) ==
  IF entries = <<>> THEN 0 ELSE Max(Head(entries).sequence, MaxSeq(Tail(entries)))

\* StorageEngine::new on the directories wal_dir and sst_dir, read_dir listing
\* the sst directory in `order`.
EngineNew(wal_dir, sst_dir, order, algo) ==
  LET w == WalNew(wal_dir)
      loaded == LoadExistingFiles(sst_dir, order)
      entries == WalRecover(w, algo)
  IN [err |-> loaded.err,
      wal |-> w,
      sst |-> loaded.sst,
      recovered |-> entries,
      memtable |-> Replay(MemNew, entries),
      sequence |-> MaxSeq(entries) + 1]

NoMutation == [op |-> "none", value |-> 0, sequence |-> 0]

\* secmem-agent (Task_3) as main leaves it: no secret stored, the TTL worker
\* in its first sleep.  now is the monotonic clock in milliseconds, due the
\* end of the worker's sleep, secrets maps a name to Some(expires_at), and
\* deadline remembers the expires_at of the last PUT of a name.
AgentStart ==
  [now |-> 0, due |-> TTL_SWEEP_MS, secrets |-> [n \in Keys |-> None],
   deadline |-> [n \in Keys |-> None]]

\* The compactor as Compactor::start leaves it: the task of compact_loop is
\* spawned and has no step in progress.  pc is the position of the task, files
\* the tables its step selected, left the inputs it has still to remove, and
\* aborted whether Compactor::stop has called abort on the task's handle.
CompactorStart == [pc |-> "sleep", files |-> <<>>, left |-> <<>>, aborted |-> FALSE]

\* No call of get is in progress.
NoReader == [pc |-> "idle"]

Init ==
  /\ checksum_algorithm \in Algorithms
  /\ LET e == EngineNew(<<>>, <<>>, <<>>, checksum_algorithm)
     IN /\ wal = e.wal
        /\ sst = e.sst
        /\ memtable = e.memtable
        /\ sequence = e.sequence
        /\ recovered = e.recovered
  /\ running = TRUE
  /\ phase = "open"
  /\ ret = NoRet
  /\ last = [k \in Keys |-> NoMutation]
  /\ log = <<>>
  /\ acked = {}
  /\ restarts = 0
  /\ damages = 0
  /\ procs = [p \in Procs |-> Idle]
  /\ group_commit = NoWaiters
  /\ agent = AgentStart
  /\ compactor = CompactorStart
  /\ reader = NoReader

\* StorageEngine::put(key, value), run to completion.
Put(key, value) ==
  /\ phase = "open"
  /\ \A p \in Procs : procs[p] = Idle
  /\ Len(log) < MaxOps
  /\ LET seq == sequence
         entry == new_put(key, value, seq)
         appended == WalAppend(wal, entry, checksum_algorithm)
         after == FlushIfFull(MemPut(memtable, key, value, seq), sst, checksum_algorithm)
     IN /\ sequence' = seq + 1
        /\ wal' = WalSync(appended.wal)
        /\ memtable' = after.memtable
        /\ sst' = after.sst
        /\ log' = Append(log, entry)
        /\ acked' = acked \cup {entry}
        /\ last' = [last EXCEPT ![key] = [op |-> "put", value |-> value, sequence |-> seq]]
        /\ ret' = [op |-> "put", key |-> key, err |-> FALSE, rotated |-> FALSE]
  /\ UNCHANGED <<checksum_algorithm, agent, compactor, reader, running, phase, recovered, restarts, damages,
                 callers>>

\* StorageEngine::delete(key), run to completion.
Delete(key) ==
  /\ phase = "open"
  /\ \A p \in Procs : procs[p] = Idle
  /\ Len(log) < MaxOps
  /\ LET seq == sequence
         entry == new_delete(key, seq)
         appended == WalAppend(wal, entry, checksum_algorithm)
         after == FlushIfFull(MemDelete(memtable, key, seq), sst, checksum_algorithm)
     IN /\ sequence' = seq + 1
        /\ wal' = WalSync(appended.wal)
        /\ memtable' = after.memtable
        /\ sst' = after.sst
        /\ log' = Append(log, entry)
        /\ acked' = acked \cup {entry}
        /\ last' = [last EXCEPT ![key] = [op |-> "delete", value |-> 0, sequence |-> seq]]
        /\ ret' = [op |-> "delete", key |-> key, err |-> FALSE, rotated |-> FALSE]
  /\ UNCHANGED <<checksum_algorithm, agent, compactor, reader, running, phase, recovered, restarts, damages,
                 callers>>

\* StorageEngine::get(key).
Get(key) ==
  /\ phase = "open"
  /\ LET r == EngineGet(memtable, sst, key, checksum_algorithm)
     IN ret' = [op |-> "get", key |-> key, err |-> r.err, value |-> r.value]
  /\ UNCHANGED <<checksum_algorithm, agent, compactor, reader, wal, memtable, sst, sequence, running, phase,
                 recovered, last, log, acked, restarts, damages, callers>>

\* StorageEngine::scan(start, end) with start <= end.
Scan(start, end) ==
  /\ phase = "open"
  /\ start <= end
  /\ LET r == EngineScan(memtable, sst, start, end, checksum_algorithm)
     IN ret' = [op |-> "scan", start |-> start, end |-> end, err |-> r.err,
                value |-> r.value]
  /\ UNCHANGED <<checksum_algorithm, agent, compactor, reader, wal, memtable, sst, sequence, running, phase,
                 recovered, last, log, acked, restarts, damages, callers>>

\* StorageEngine::put or delete of `entry` (its sequence still to be taken)
\* returning Err.  stage is the call that fails: "rotate" (the flush, the
\* fdatasync or the file creation of WalManager::rotate_segment), "flush" (WalSegment::flush
\* in WalManager::sync, at write_all or at sync_all), "fdatasync" (after the
\* flush), or "write_sst" (the flush of the memtable the write has filled; the
\* table file is not created).  ret.before is what get returned before the call.
WriteFails(entry, stage) ==
  /\ phase = "open"
  /\ \A p \in Procs : procs[p] = Idle
  /\ Len(log) < MaxOps
  /\ damages < MaxDamages
  /\ LET e == [entry EXCEPT !.sequence = sequence]
         appended == WalAppend(wal, e, checksum_algorithm).wal
         m == IF e.op_type = OpPut THEN MemPut(memtable, e.key, e.value, e.sequence)
              ELSE MemDelete(memtable, e.key, e.sequence)
     IN /\ stage = "rotate" =>
             /\ SegIsFull(wal.current_segment)
             /\ wal' \in {wal, SegWriteOnly(wal)}
             /\ UNCHANGED <<memtable, sst, log>>
        /\ stage = "flush" =>
             /\ wal' \in {appended, SegWriteOnly(appended)}
             /\ log' = Append(log, e)
             /\ UNCHANGED <<memtable, sst>>
        /\ stage = "fdatasync" =>
             /\ wal' = SegFlush(appended)
             /\ log' = Append(log, e)
             /\ UNCHANGED <<memtable, sst>>
        /\ stage = "write_sst" =>
             /\ MemIsFull(m)
             /\ wal' = WalSync(appended)
             /\ log' = Append(log, e)
             /\ memtable' = m
             /\ sst' = [sst EXCEPT !.next_id = @ + 1]
        /\ ret' = [op |-> IF e.op_type = OpPut THEN "put" ELSE "delete",
                   key |-> e.key, err |-> TRUE, stage |-> stage,
                   before |-> EngineGet(memtable, sst, e.key, checksum_algorithm)]
  /\ sequence' = sequence + 1
  /\ damages' = damages + 1
  /\ UNCHANGED <<checksum_algorithm, agent, compactor, reader, running, phase, recovered, last, acked, restarts,
                 callers>>

WriteFailsAny ==
  \E key \in Keys, stage \in {"rotate", "flush", "fdatasync", "write_sst"} :
     \/ \E value \in Values : WriteFails(new_put(key, value, 0), stage)
     \/ WriteFails(new_delete(key, 0), stage)

PutAny == \E key \in Keys, value \in Values : Put(key, value)

DeleteAny == \E key \in Keys : Delete(key)

GetAny == \E key \in Keys : Get(key)

ScanAny == \E start \in 1..(NumKeys + 1), end \in 1..(NumKeys + 1) : Scan(start, end)

\* StorageEngine::close: stop the compactor, flush the memtable when it is
\* full, sync the log.  After close the histories considered call close again
\* or open the directory anew.
Close ==
  /\ phase = "open"
  /\ \A p \in Procs : procs[p] = Idle
  /\ LET after == FlushIfFull(memtable, sst, checksum_algorithm)
     IN /\ memtable' = after.memtable
        /\ sst' = after.sst
  /\ wal' = WalSync(wal)
  /\ running' = FALSE
  /\ compactor' = [compactor EXCEPT !.aborted = TRUE]
  /\ phase' = "closed"
  /\ ret' = [op |-> "close", err |-> FALSE,
             reads |-> [k \in Keys |->
                          EngineGet(memtable, sst, k, checksum_algorithm)]]
  /\ UNCHANGED <<checksum_algorithm, agent, reader, sequence, recovered, last, log, acked,
                 restarts, damages, callers>>

\* StorageEngine::close called on an engine whose close has returned.  ret
\* keeps the TableSet, the table files, the memtable and the segment files as
\* they were before the call.
CloseAgain ==
  /\ phase = "closed"
  /\ \A p \in Procs : procs[p] = Idle
  /\ LET after == FlushIfFull(memtable, sst, checksum_algorithm)
     IN /\ memtable' = after.memtable
        /\ sst' = after.sst
  /\ wal' = WalSync(wal)
  /\ running' = FALSE
  /\ compactor' = [compactor EXCEPT !.aborted = TRUE]
  /\ ret' = [op |-> "close_again", err |-> FALSE, sst |-> sst,
             memtable |-> memtable, dir |-> wal.dir]
  /\ UNCHANGED <<checksum_algorithm, agent, reader, sequence, phase, recovered, last, log, acked,
                 restarts, damages, callers>>

\* The process ends without close: what is in memory is gone, the files stay.
Crash ==
  /\ phase = "open"
  /\ restarts < MaxRestarts
  /\ phase' = "down"
  /\ running' = FALSE
  /\ memtable' = MemNew
  /\ wal' = [wal EXCEPT !.current_segment.buffer = <<>>]
  /\ procs' = [p \in Procs |-> Idle]
  /\ group_commit' = NoWaiters
  /\ ret' = [op |-> "crash"]
  /\ UNCHANGED <<checksum_algorithm, agent, compactor, reader, sst, sequence, recovered, last, log, acked,
                 restarts, damages>>

\* StorageEngine::new on the directory of an engine that was closed or went
\* down; read_dir may list the tables in any order.
Restart(bound) ==
  /\ phase \in {"closed", "down"}
  /\ restarts < bound
  /\ \E order \in DirOrders(sst.dir) :
       LET e == EngineNew(wal.dir, sst.dir, order, checksum_algorithm)
       IN /\ wal' = e.wal
          /\ sst' = e.sst
          /\ memtable' = e.memtable
          /\ sequence' = e.sequence
          /\ recovered' = e.recovered
          /\ ret' = [op |-> "new", err |-> e.err,
                     before |-> IF ret.op = "close" THEN Some(ret.reads) ELSE None]
  /\ running' = TRUE
  /\ compactor' = CompactorStart
  /\ phase' = "open"
  /\ restarts' = restarts + 1
  /\ UNCHANGED <<checksum_algorithm, agent, reader, last, log, acked, damages, callers>>

Reopen == Restart(MaxRestarts)

\* Damage to a log segment while no engine is open: the bytes of the record at
\* `off` are altered, so that its checksum no longer matches.
CorruptLog(id, off) ==
  /\ phase \in {"closed", "down"}
  /\ damages < MaxDamages
  /\ \E r \in wal.dir[id].recs :
       /\ r.off = off
       /\ r.bytes.checksum # <<"damaged">>
       /\ wal' = [wal EXCEPT !.dir[id].recs =
                     (@ \ {r}) \cup {[r EXCEPT !.bytes.checksum = <<"damaged">>]}]
  /\ damages' = damages + 1
  /\ ret' = [op |-> "damage"]
  /\ UNCHANGED <<checksum_algorithm, agent, compactor, reader, memtable, sst, sequence, running, phase,
                 recovered, last, log, acked, restarts, callers>>

\* The segment file as truncate(new_len) leaves it: the records that start at
\* or after new_len are gone, a record cut by new_len keeps its head only.
Truncated(file, new_len) ==
  [len |-> new_len,
   recs |-> {IF r.off + WAL_HEADER_SIZE + r.bytes.key_len + r.bytes.value_len <= new_len
             THEN r ELSE [r EXCEPT !.bytes.checksum = <<"damaged">>] :
             r \in {x \in file.recs : x.off < new_len}}]

\* Damage to a log segment while no engine is open: the file is truncated in
\* the middle of a record.
TruncateLog(id, new_len) ==
  /\ phase \in {"closed", "down"}
  /\ damages < MaxDamages
  /\ new_len < wal.dir[id].len
  /\ \E r \in wal.dir[id].recs : r.off < new_len /\ new_len < r.off + r.bytes.size
  /\ wal' = [wal EXCEPT !.dir[id] = Truncated(@, new_len)]
  /\ damages' = damages + 1
  /\ ret' = [op |-> "damage"]
  /\ UNCHANGED <<checksum_algorithm, agent, compactor, reader, memtable, sst, sequence, running, phase,
                 recovered, last, log, acked, restarts, callers>>

CorruptAny ==
  \E id \in DOMAIN wal.dir : \E r \in wal.dir[id].recs : CorruptLog(id, r.off)

\* Cuts 4 and 100 bytes into a record: inside its header and inside its padding
\* or value.
TruncateAny ==
  \E id \in DOMAIN wal.dir : \E r \in wal.dir[id].recs, d \in {4, 100} :
     TruncateLog(id, r.off + d)

\* Damage to a table file on disk: the bytes of one of its records are
\* altered, so that the checksum of the record no longer matches.
CorruptTable ==
  /\ phase = "open"
  /\ damages < MaxDamages
  /\ \E id \in DOMAIN sst.dir :
       \E b \in DOMAIN sst.dir[id].blocks :
         \E i \in DOMAIN sst.dir[id].blocks[b].recs :
           /\ sst.dir[id].blocks[b].recs[i].checksum # <<"damaged">>
           /\ sst' = [sst EXCEPT !.dir[id].blocks[b].recs[i].checksum = <<"damaged">>]
  /\ damages' = damages + 1
  /\ ret' = [op |-> "damage"]
  /\ UNCHANGED <<checksum_algorithm, agent, compactor, reader, wal, memtable, sequence, running, phase,
                 recovered, last, log, acked, restarts, callers>>

\* One turn of Compactor::compact_loop that finds work: the selected tables
\* are merged.  ret keeps what a reader saw before the step and the selected
\* tables as they were on disk.
MergeStep ==
  /\ phase = "open"
  /\ running
  /\ \A p \in Procs : procs[p] = Idle
  /\ LET files == SelectFilesForCompaction(sst)
         r == MergeSstFilesImpl(sst, files, checksum_algorithm)
     IN /\ files # <<>>
        /\ sst' = r.sst
        /\ ret' = [op |-> "merge", err |-> r.err,
                   inputs |-> [i \in DOMAIN files |-> files[i].id],
                   tables |-> [i \in DOMAIN files |-> sst.dir[files[i].id]],
                   dir_before |-> sst.dir,
                   before |-> [k \in Keys |->
                                 EngineGet(memtable, sst, k, checksum_algorithm)]]
  /\ UNCHANGED <<checksum_algorithm, agent, compactor, reader, wal, memtable, sequence, running, phase,
                 recovered, last, log, acked, restarts, damages, callers>>

\* Compactor::select_size_tiered called on a list of table metadata, as the
\* unit tests of the compactor call it: only id and size matter to it.
Select(files) ==
  /\ ret' = [op |-> "select", files |-> files,
             value |-> SelectSizeTiered(files, size_ratio, min_threshold)]
  /\ UNCHANGED <<checksum_algorithm, agent, compactor, reader, wal, memtable, sst, sequence, running, phase,
                 recovered, last, log, acked, restarts, damages, callers>>

SelectAny ==
  \E n \in 0..MaxFiles : \E sizes \in [1..n -> FileSizes] :
     Select([i \in 1..n |-> [size |-> sizes[i], id |-> i]])

\* SstManager::write_sst on `entries` followed by SstManager::read of every
\* key on the table it wrote, as the unit tests of the table format do.
WriteRead(entries) ==
  /\ LET w == WriteSst(sst, entries, checksum_algorithm)
     IN ret' = [op |-> "write_sst", entries |-> entries,
                blocks |-> Len(w.sst.dir[w.file.id].index),
                reads |-> [k \in Keys |->
                             SstRead(w.sst.dir, w.file, k, checksum_algorithm)]]
  /\ UNCHANGED <<checksum_algorithm, agent, compactor, reader, wal, memtable, sst, sequence, running, phase,
                 recovered, last, log, acked, restarts, damages, callers>>

\* The non-empty entry lists sorted strictly ascending by key: values, the
\* empty value and tombstones.
WriteReadAny ==
  \E S \in (SUBSET Keys) \ {{}} :
    \E f \in [S -> {None} \cup {Some(v) : v \in Values}] :
      WriteRead(SeqOfKeys(S, [k \in S |-> <<k, f[k]>>]))

\* SstEntry::deserialize applied to SstEntry::serialize of (key, value).
EntryRoundTrip(key, value) ==
  /\ LET bytes == SstSerialize(key, value, checksum_algorithm)
     IN ret' = [op |-> "entry", key |-> key, value |-> value,
                decoded |-> SstDeserialize(bytes, bytes.size, checksum_algorithm)]
  /\ UNCHANGED <<checksum_algorithm, agent, compactor, reader, wal, memtable, sst, sequence, running, phase,
                 recovered, last, log, acked, restarts, damages, callers>>

\* WalEntry::deserialize applied to WalEntry::serialize of a record of any
\* key, value, timestamp, sequence number and operation.
WalRoundTrip ==
  /\ \E key \in Keys, value \in 0..4, ts \in {0, 1}, seq \in {1, 2},
        op \in {OpPut, OpDelete} :
       LET entry == [timestamp |-> ts, sequence |-> seq, key |-> key,
                     value |-> value, op_type |-> op]
           bytes == WalSerialize(entry, checksum_algorithm)
       IN ret' = [op |-> "wal_entry", entry |-> entry, size |-> bytes.size,
                  decoded |-> WalDeserialize(bytes, bytes.size, checksum_algorithm)]
  /\ UNCHANGED <<checksum_algorithm, agent, compactor, reader, wal, memtable, sst, sequence, running, phase,
                 recovered, last, log, acked, restarts, damages, callers>>

EntryRoundTripAny ==
  \E key \in Keys, value \in {None} \cup {Some(v) : v \in Values} :
     EntryRoundTrip(key, value)

(***************************************************************************)
(* put and delete by concurrent callers, one action per critical section.  *)
(* A caller's locals: the record it logs, the segment it appended to,      *)
(* whether the log was rotated between its append and its flush, and the   *)
(* permit of the Notify it registered.                                     *)
(***************************************************************************)
Started == Len(log) + Cardinality({p \in Procs : procs[p].pc \in {"append", "rotate", "append2"}})

\* put/delete up to the creation of the log record: sequence.fetch_add(1).
CStart(p, entry) ==
  /\ phase = "open"
  /\ procs[p].pc = "idle"
  /\ Started < MaxOps
  /\ sequence' = sequence + 1
  /\ procs' = [procs EXCEPT ![p] = [pc |-> "append",
                                     entry |-> [entry EXCEPT !.sequence = sequence],
                                     seg |-> 0, rotated |-> FALSE, permit |-> FALSE,
                                     entries |-> <<>>]]
  /\ UNCHANGED <<checksum_algorithm, agent, compactor, reader, wal, memtable, sst, running, phase, ret,
                 recovered, last, log, acked, restarts, damages, group_commit>>

\* WalManager::append under the segment lock: a full segment makes the caller
\* drop the lock to rotate, otherwise the record joins the buffer.
CAppend(p) ==
  /\ procs[p].pc = "append"
  /\ IF SegIsFull(wal.current_segment)
     THEN /\ procs' = [procs EXCEPT ![p].pc = "rotate"]
          /\ UNCHANGED <<wal, log>>
     ELSE /\ wal' = [wal EXCEPT !.current_segment.buffer =
                        Append(@, WalSerialize(procs[p].entry, checksum_algorithm))]
          /\ log' = Append(log, procs[p].entry)
          /\ procs' = [procs EXCEPT ![p].pc = "register",
                                    ![p].seg = wal.current_segment.file_id]
  /\ UNCHANGED <<checksum_algorithm, agent, compactor, reader, memtable, sst, sequence, running, phase, ret,
                 recovered, last, acked, restarts, damages, group_commit>>

\* WalManager::rotate_segment, called by append with the lock released.
CRotate(p) ==
  /\ procs[p].pc = "rotate"
  /\ wal' = RotateSegment(wal)
  /\ procs' = [procs EXCEPT ![p].pc = "append2"]
  /\ UNCHANGED <<checksum_algorithm, agent, compactor, reader, memtable, sst, sequence, running, phase, ret,
                 recovered, last, log, acked, restarts, damages, group_commit>>

\* WalManager::append after its rotation: the lock is taken again and the record
\* joins the buffer.
CAppend2(p) ==
  /\ procs[p].pc = "append2"
  /\ wal' = [wal EXCEPT !.current_segment.buffer =
                Append(@, WalSerialize(procs[p].entry, checksum_algorithm))]
  /\ log' = Append(log, procs[p].entry)
  /\ procs' = [procs EXCEPT ![p].pc = "register",
                            ![p].seg = wal.current_segment.file_id]
  /\ UNCHANGED <<checksum_algorithm, agent, compactor, reader, memtable, sst, sequence, running, phase, ret,
                 recovered, last, acked, restarts, damages, group_commit>>

\* WalManager::sync: GroupCommit::register.
CRegister(p) ==
  /\ procs[p].pc = "register"
  /\ group_commit' = [group_commit EXCEPT !.pending = @ \cup {p}]
  /\ procs' = [procs EXCEPT ![p].pc = "flush", ![p].permit = FALSE]
  /\ UNCHANGED <<checksum_algorithm, agent, compactor, reader, wal, memtable, sst, sequence, running, phase, ret,
                 recovered, last, log, acked, restarts, damages>>

\* WalManager::sync: the flush of the current segment under its lock.
CFlush(p) ==
  /\ procs[p].pc = "flush"
  /\ wal' = SegFlush(wal)
  /\ procs' = [procs EXCEPT ![p].pc = "check",
                            ![p].rotated = (wal.current_segment.file_id # procs[p].seg)]
  /\ UNCHANGED <<checksum_algorithm, agent, compactor, reader, memtable, sst, sequence, running, phase, ret,
                 recovered, last, log, acked, restarts, damages, group_commit>>

\* GroupCommit::pending_count.
PendingCount(g) == Cardinality(g.pending)

\* A faulty notify: it wakes a caller that is waiting and leaves no permit for
\* one that is not.
NotifyWaiters(proc) == [proc EXCEPT !.permit = (proc.pc = "wait")]

\* Notify::notify_one on the Notify a caller registered: a waiting caller is
\* woken, otherwise the permit is stored for its notified().await.
NotifyOne(proc) == [proc EXCEPT !.permit = TRUE]

\* WalManager::sync: the test pending_count() >= 1.
CCheck(p) ==
  /\ procs[p].pc = "check"
  /\ procs' = [procs EXCEPT ![p].pc =
                  IF PendingCount(group_commit) >= 1 THEN "commit" ELSE "wait"]
  /\ UNCHANGED <<checksum_algorithm, agent, compactor, reader, wal, memtable, sst, sequence, running, phase, ret,
                 recovered, last, log, acked, restarts, damages, group_commit>>

\* WalManager::sync: fdatasync, then GroupCommit::commit_all, which drains the
\* pending list and notifies each drained Notify.  A Notify left behind by a
\* call that has returned is notified to no effect.  ret tells whether the
\* caller's own registration had been drained by an earlier commit_all.
CCommit(p) ==
  /\ procs[p].pc = "commit"
  /\ procs' = [q \in Procs |->
                 LET n == IF q \in group_commit.pending /\ procs[q].pc \notin {"idle", "append", "rotate", "append2", "register"}
                          THEN NotifyOne(procs[q]) ELSE procs[q]
                 IN IF q = p THEN [n EXCEPT !.pc = "apply"] ELSE n]
  /\ group_commit' = [group_commit EXCEPT !.pending = {}]
  /\ ret' = [op |-> "fdatasync", caller |-> p,
             drained |-> p \notin group_commit.pending]
  /\ UNCHANGED <<checksum_algorithm, agent, compactor, reader, wal, memtable, sst, sequence, running, phase,
                 recovered, last, log, acked, restarts, damages>>

\* WalManager::sync: notified().await returns once the caller's Notify holds a
\* permit.
CWait(p) ==
  /\ procs[p].pc = "wait"
  /\ procs[p].permit
  /\ procs' = [procs EXCEPT ![p].pc = "apply", ![p].permit = FALSE]
  /\ UNCHANGED <<checksum_algorithm, agent, compactor, reader, wal, memtable, sst, sequence, running, phase, ret,
                 recovered, last, log, acked, restarts, damages, group_commit>>

\* The rest of put/delete: the memtable update, the flush of a full memtable,
\* and the return of Ok.
CApply(p) ==
  /\ procs[p].pc = "apply"
  /\ LET e == procs[p].entry
         m == IF e.op_type = OpPut THEN MemPut(memtable, e.key, e.value, e.sequence)
              ELSE MemDelete(memtable, e.key, e.sequence)
         after == FlushIfFull(m, sst, checksum_algorithm)
         name == IF e.op_type = OpPut THEN "put" ELSE "delete"
     IN /\ memtable' = after.memtable
        /\ sst' = after.sst
        /\ acked' = acked \cup {e}
        /\ last' = [last EXCEPT ![e.key] =
                      [op |-> name, value |-> e.value, sequence |-> e.sequence]]
        /\ ret' = [op |-> name, key |-> e.key, err |-> FALSE,
                   rotated |-> procs[p].rotated]
  /\ procs' = [procs EXCEPT ![p] = Idle]
  /\ UNCHANGED <<checksum_algorithm, agent, compactor, reader, wal, sequence, running, phase, recovered, log,
                 restarts, damages, group_commit>>

\* The rest of put/delete step by step, one action per lock scope.
\* Ok is returned to caller p.
Returned(p) ==
  LET e == procs[p].entry
      name == IF e.op_type = OpPut THEN "put" ELSE "delete"
  IN /\ acked' = acked \cup {e}
     /\ last' = [last EXCEPT ![e.key] =
                   [op |-> name, value |-> e.value, sequence |-> e.sequence]]
     /\ ret' = [op |-> name, key |-> e.key, err |-> FALSE, rotated |-> procs[p].rotated]
     /\ procs' = [procs EXCEPT ![p] = Idle]

\* memtable.put or memtable.delete under the read guard.
CInsert(p) ==
  /\ procs[p].pc = "apply"
  /\ LET e == procs[p].entry
     IN memtable' = IF e.op_type = OpPut
                    THEN MemPut(memtable, e.key, e.value, e.sequence)
                    ELSE MemDelete(memtable, e.key, e.sequence)
  /\ procs' = [procs EXCEPT ![p].pc = "is_full"]
  /\ UNCHANGED <<checksum_algorithm, agent, compactor, reader, wal, sst, sequence, running, phase, ret,
                 recovered, last, log, acked, restarts, damages, group_commit>>

\* memtable.is_full under a second read guard: flush_memtable or return.
CIsFull(p) ==
  /\ procs[p].pc = "is_full"
  /\ IF MemIsFull(memtable)
     THEN /\ procs' = [procs EXCEPT ![p].pc = "snapshot"]
          /\ UNCHANGED <<ret, last, acked>>
     ELSE Returned(p)
  /\ UNCHANGED <<checksum_algorithm, agent, compactor, reader, wal, memtable, sst, sequence, running, phase,
                 recovered, log, restarts, damages, group_commit>>

\* flush_memtable: get_all_entries under the read guard.
CSnapshot(p) ==
  /\ procs[p].pc = "snapshot"
  /\ procs' = [procs EXCEPT ![p].pc = "write_sst",
                            ![p].entries = MemGetAllEntries(memtable)]
  /\ UNCHANGED <<checksum_algorithm, agent, compactor, reader, wal, memtable, sst, sequence, running, phase,
                 ret, recovered, last, log, acked, restarts, damages, group_commit>>

\* flush_memtable: write_sst of the snapshot when it is not empty.
CWriteSst(p) ==
  /\ procs[p].pc = "write_sst"
  /\ sst' = IF procs[p].entries # <<>>
            THEN WriteSst(sst, procs[p].entries, checksum_algorithm).sst
            ELSE sst
  /\ procs' = [procs EXCEPT ![p].pc = "clear"]
  /\ UNCHANGED <<checksum_algorithm, agent, compactor, reader, wal, memtable, sequence, running, phase,
                 ret, recovered, last, log, acked, restarts, damages, group_commit>>

\* flush_memtable: memtable.clear under the write guard, then Ok is returned.
CClear(p) ==
  /\ procs[p].pc = "clear"
  /\ memtable' = MemClear(memtable)
  /\ Returned(p)
  /\ UNCHANGED <<checksum_algorithm, agent, compactor, reader, wal, sst, sequence, running, phase,
                 recovered, log, restarts, damages, group_commit>>

\* Caller p works on its own key: the callers' records differ, the log and the
\* rendezvous are what they share.
KeyOf(p) == ((p - 1) % NumKeys) + 1

CStartAny ==
  \E p \in Procs :
     \/ \E value \in Values \ {0} : CStart(p, new_put(KeyOf(p), value, 0))
     \/ CStart(p, new_delete(KeyOf(p), 0))

CStep ==
  \E p \in Procs :
     \/ CAppend(p) \/ CRotate(p) \/ CAppend2(p) \/ CRegister(p) \/ CFlush(p)
     \/ CCheck(p) \/ CCommit(p) \/ CWait(p) \/ CApply(p)

\* The Err a put or delete returns to caller p, whose call ends here.
CFailed(p, stage) ==
  /\ damages < MaxDamages
  /\ damages' = damages + 1
  /\ procs' = [procs EXCEPT ![p] = Idle]
  /\ ret' = [op |-> IF procs[p].entry.op_type = OpPut THEN "put" ELSE "delete",
             key |-> procs[p].entry.key, err |-> TRUE, stage |-> stage]

\* WalManager::sync: WalSegment::flush returns an error, at write_all (nothing
\* written) or at sync_all (the bytes written); sync returns it, the caller's
\* Notify stays registered and the buffer stays as it was.
CFlushFails(p) ==
  /\ procs[p].pc = "flush"
  /\ wal.current_segment.buffer # <<>>
  /\ CFailed(p, "flush")
  /\ wal' \in {wal, SegWriteOnly(wal)}
  /\ UNCHANGED <<checksum_algorithm, agent, compactor, reader, memtable, sst, sequence, running, phase,
                 recovered, last, log, acked, restarts, group_commit>>

\* WalManager::sync: fdatasync returns an error; sync returns it without
\* calling commit_all.
CSyncFails(p) ==
  /\ procs[p].pc = "commit"
  /\ CFailed(p, "fdatasync")
  /\ UNCHANGED <<checksum_algorithm, agent, compactor, reader, wal, memtable, sst, sequence, running, phase,
                 recovered, last, log, acked, restarts, group_commit>>

CFail == \E p \in Procs : CFlushFails(p) \/ CSyncFails(p)

(***************************************************************************)
(* SpecSeq: single-caller histories of put, delete, get and scan.          *)
(***************************************************************************)
NextSeq == PutAny \/ DeleteAny \/ GetAny \/ ScanAny

SpecSeq == Init /\ [][NextSeq]_vars

(***************************************************************************)
(* SpecRestart: single-caller histories of put and delete ended by close   *)
(* and followed by StorageEngine::new on the same directory.               *)
(***************************************************************************)
NextRestart == PutAny \/ DeleteAny \/ Close \/ CloseAgain \/ Reopen

SpecRestart == Init /\ [][NextRestart]_vars

(***************************************************************************)
(* SpecMerge: single-caller histories of put and delete with the merger    *)
(* taking its turns in between.                                            *)
(***************************************************************************)
NextMerge == PutAny \/ DeleteAny \/ MergeStep

SpecMerge == Init /\ [][NextMerge]_vars

(***************************************************************************)
(* SpecConc: concurrent callers of put and delete, with crashes at any     *)
(* point and restarts.                                                     *)
(***************************************************************************)
NextConc == CStartAny \/ CStep \/ Crash \/ Reopen

SpecConc == Init /\ [][NextConc]_vars

(***************************************************************************)
(* SpecSyncFair: concurrent callers of put whose flush or fdatasync may    *)
(* fail.  A caller inside WalManager::sync that can take its next step     *)
(* eventually takes it: the runtime polls every task that is ready, and a  *)
(* task in notified().await is ready once its Notify holds a permit.       *)
(***************************************************************************)
CStartPut == \E p \in Procs, value \in Values \ {0} : CStart(p, new_put(KeyOf(p), value, 0))

\* The steps of caller p inside WalManager::sync.
CSyncStep(p) == CRegister(p) \/ CFlush(p) \/ CCheck(p) \/ CCommit(p) \/ CWait(p)

NextSync == CStartPut \/ CStep \/ CFail

SpecSyncFair == Init /\ [][NextSync]_vars /\ \A p \in Procs : WF_vars(CSyncStep(p))

(***************************************************************************)
(* SpecTable: single-caller histories of put, delete and get, with damage  *)
(* to the records of the table files.                                      *)
(***************************************************************************)
NextTable == PutAny \/ DeleteAny \/ GetAny \/ CorruptTable

SpecTable == Init /\ [][NextTable]_vars

(***************************************************************************)
(* SpecFail: single-caller histories of put and delete in which calls may  *)
(* fail on an I/O error, ended by close and followed by a restart.         *)
(***************************************************************************)
NextFail == PutAny \/ DeleteAny \/ WriteFailsAny \/ Close \/ Reopen

SpecFail == Init /\ [][NextFail]_vars

(***************************************************************************)
(* SpecUnit: the functions of the compactor and of the table format called *)
(* on their own with inputs of every shape.                                *)
(***************************************************************************)
NextUnit == SelectAny \/ WriteReadAny \/ EntryRoundTripAny \/ WalRoundTrip

SpecUnit == Init /\ [][NextUnit]_vars

(***************************************************************************)
(* SpecDamage: single-caller histories of put and delete, with restarts    *)
(* after close and damage to the log segments of the closed engine.        *)
(***************************************************************************)
(***************************************************************************)
(* Task_3/src/bin/secmem-agent.rs.  A name is one of Keys; the stored blob *)
(* is left out, a reply is the payload line sent back.                     *)
(***************************************************************************)
engine == <<checksum_algorithm, wal, memtable, sst, sequence, running, phase,
            recovered, last, log, acked, restarts, damages, procs, group_commit,
            compactor, reader>>

\* The clock advances.
Tick ==
  /\ agent.now + TickMs <= MaxNow
  /\ agent' = [agent EXCEPT !.now = @ + TickMs]
  /\ UNCHANGED <<engine, ret>>

\* handle_put: the record is inserted with expires_at = now + ttl.
handle_put(name, ttl) ==
  /\ agent' = [agent EXCEPT !.secrets[name] = Some(agent.now + ttl),
                            !.deadline[name] = Some(agent.now + ttl)]
  /\ ret' = [op |-> "agent_put", name |-> name, reply |-> "OK"]
  /\ UNCHANGED engine

\* handle_get when the TTL worker does not run between the lookup and the
\* read of the blob: the lookup is by name alone.
handle_get(name) ==
  /\ ret' = [op |-> "agent_get", name |-> name, now |-> agent.now,
             deadline |-> agent.deadline[name],
             reply |-> IF IsSome(agent.secrets[name]) THEN "OK"
                       ELSE "ERR no such key"]
  /\ UNCHANGED <<engine, agent>>

\* One turn of ttl_worker once its sleep of 500 ms is over: every record with
\* expires_at <= now is removed, and the next sleep begins.
ttl_worker ==
  /\ agent.now >= agent.due
  /\ agent' = [agent EXCEPT
                 !.secrets = [n \in Keys |->
                                IF IsSome(@[n]) /\ @[n][1] <= agent.now THEN None
                                ELSE @[n]],
                 !.due = agent.now + TTL_SWEEP_MS]
  /\ ret' = [op |-> "agent_sweep"]
  /\ UNCHANGED engine

NextAgent ==
  \/ Tick
  \/ \E name \in Keys, ttl \in Ttls : handle_put(name, ttl)
  \/ \E name \in Keys : handle_get(name)
  \/ ttl_worker

SpecAgent == Init /\ [][NextAgent]_vars

\* A segment is torn before the first restart only.
TearOnce == restarts = 0 /\ TruncateAny

NextTorn == PutAny \/ Close \/ TearOnce \/ Restart(MaxTornRestarts)

SpecTorn == Init /\ [][NextTorn]_vars

(***************************************************************************)
(* SpecFlush: concurrent callers of put and delete on any key, the memtable *)
(* update and flush_memtable taken one lock scope at a time.               *)
(***************************************************************************)
CStartFree ==
  \E p \in Procs, key \in Keys :
     /\ Started < MaxFlushOps
     /\ \/ \E value \in Values \ {0} : CStart(p, new_put(key, value, 0))
        \/ CStart(p, new_delete(key, 0))

CFlushSteps ==
  \E p \in Procs :
     \/ CAppend(p) \/ CRotate(p) \/ CAppend2(p) \/ CRegister(p) \/ CFlush(p)
     \/ CCheck(p) \/ CCommit(p) \/ CWait(p)
     \/ CInsert(p) \/ CIsFull(p) \/ CSnapshot(p) \/ CWriteSst(p) \/ CClear(p)

NextFlush == CStartFree \/ CFlushSteps

SpecFlush == Init /\ [][NextFlush]_vars

NextDamage == PutAny \/ DeleteAny \/ Close \/ CorruptAny \/ TruncateAny \/ Reopen

SpecDamage == Init /\ [][NextDamage]_vars

(***************************************************************************)
(* The properties.                                                         *)
(***************************************************************************)
\* The outcome of the latest acknowledged mutation of a key.
Outcome(m) == IF m.op = "put" THEN Some(m.value) ELSE None

\* The keys of the records a table file holds on disk.
TableKeys(file) == {r.key : r \in Range(Flatten(file.blocks))}

\* The records of a segment file that start at a page boundary and decode.
IntactAligned(file, algo) ==
  {r \in file.recs : /\ r.off % PAGE_SIZE = 0
                     /\ WalDeserialize(r.bytes, file.len - r.off, algo).ok}

\* The last record of key k in a replayed list, None when there is none.
LastOf(entries, k) ==
  LET hits == {i \in DOMAIN entries : entries[i].key = k}
  IN IF hits = {} THEN None
     ELSE Some(entries[CHOOSE i \in hits : \A j \in hits : j <= i])

\* The record of key k in the newest (highest id) of the tables that hold k,
\* None when no table holds k.
LatestAmong(ids, tables, k) ==
  LET holders == {i \in DOMAIN ids : k \in TableKeys(tables[i])}
  IN IF holders = {} THEN None
     ELSE LET i == CHOOSE x \in holders : \A y \in holders : ids[y] <= ids[x]
          IN Some(CHOOSE r \in Range(Flatten(tables[i].blocks)) : r.key = k)

\* C1: a get(K) issued after a successful put(K, V), with no delete(K) or
\* put(K, _) in between, returns Some(V), also when the memtable was flushed
\* to a table between the put and the get.
C1_WriteReadVisibility ==
  (ret.op = "get" /\ last[ret.key].op = "put")
    => (~ret.err /\ ret.value = Some(last[ret.key].value))

\* C2: get(K) returns the outcome of the mutation of K with the largest
\* sequence number; a delete masks every older value, so a get(K) whose
\* latest mutation is delete(K) returns None, also when the tombstone lies in
\* a newer table than the value.
C2_DeleteMasks ==
  (ret.op = "get" /\ last[ret.key].op = "delete")
    => (~ret.err /\ ret.value = None)

\* C3: after a history of put/delete ended by close() and followed by
\* StorageEngine::new on the same directory, the engine starts without error,
\* every acknowledged write is in the replayed log or in a table, get(K)
\* returns Some(V) for every key whose last acknowledged mutation was
\* put(K, V) and None for every key whose last one was delete(K).
C3_GracefulRestartDurable ==
  ret.op = "new"
    => /\ ~ret.err
       /\ \A e \in acked :
            \/ e \in Range(recovered)
            \/ \E id \in DOMAIN sst.dir : e.key \in TableKeys(sst.dir[id])
       /\ \A k \in Keys :
            EngineGet(memtable, sst, k, checksum_algorithm) = Ok(Outcome(last[k]))

\* A restart after a log rotation and a memtable flush, with one key last
\* written and the other last deleted.
C3_Witness ==
  /\ ret.op = "new"
  /\ Len(wal.segments) >= 2
  /\ sst.sst_files # <<>>
  /\ \E k1, k2 \in Keys : last[k1].op = "put" /\ last[k2].op = "delete"

\* C4: in every interleaving of concurrent put/delete calls, a record whose
\* put or delete has returned Ok is in a segment file, so that a crash at this
\* point followed by a restart replays it; and every restart after a crash
\* has replayed every acknowledged record.
C4_AckedIsDurable ==
  /\ \A e \in acked :
       e \in Range(WalRecover(WalNew(wal.dir), checksum_algorithm))
  /\ ret.op = "new" => (~ret.err /\ acked \subseteq Range(recovered))

\* A call has returned Ok although the log was rotated by another caller
\* between its append and its sync.
C4_Witness ==
  /\ ret.op \in {"put", "delete"}
  /\ ret.rotated
  /\ acked # {}

\* C5: StorageEngine::new over log segments with corrupted records or a tail
\* cut in the middle of a record completes without error and replays every
\* record that is intact and starts at a 4096-byte boundary, before and after
\* the damaged pages; get(K) then returns the value of the last replayed
\* record of K.
C5_RecoverySkipsDamage ==
  ret.op = "new"
    => /\ ~ret.err
       /\ \A id \in DOMAIN wal.dir :
            \A r \in IntactAligned(wal.dir[id], checksum_algorithm) :
              WalDeserialize(r.bytes, wal.dir[id].len - r.off, checksum_algorithm).entry
                \in Range(recovered)
       /\ \A k \in Keys :
            LET e == LastOf(recovered, k)
            IN IsSome(e) =>
                 EngineGet(memtable, sst, k, checksum_algorithm)
                   = Ok(IF e[1].op_type = OpPut THEN Some(e[1].value) ELSE None)

\* A restart over a segment whose middle record is damaged while the records
\* before and after it are intact, and over a segment with a cut tail.
C5_Witness ==
  /\ ret.op = "new"
  /\ \E id \in DOMAIN wal.dir :
       \E r1, r2, r3 \in wal.dir[id].recs :
         /\ r1.off < r2.off /\ r2.off < r3.off
         /\ r2.bytes.checksum = <<"damaged">>
         /\ {r1, r3} \subseteq IntactAligned(wal.dir[id], checksum_algorithm)
  /\ \E id \in DOMAIN wal.dir : wal.dir[id].len % PAGE_SIZE # 0

\* C6: when the WalManager is constructed over a wal directory that already
\* holds segments (none of them damaged), recover() returns every record
\* exactly once, in the order in which the records were appended.
C6_ReplayOnceInOrder ==
  ret.op = "new" => recovered = log

\* C7: scan(start, end) never returns a key K with start <= K < end whose
\* latest mutation is a delete, whether the tombstone is in the memtable or
\* has been flushed to a table while an older table holds a value for K.
C7_ScanSkipsDeleted ==
  ret.op = "scan"
    => /\ ~ret.err
       /\ \A i \in DOMAIN ret.value :
            (ret.start <= ret.value[i][1] /\ ret.value[i][1] < ret.end)
              => last[ret.value[i][1]].op # "delete"

\* C8: every result of scan(start, end) is sorted strictly ascending by key
\* and holds only keys K with start <= K < end; a key equal to end that is
\* stored in a table is not returned.
C8_ScanHalfOpenSorted ==
  ret.op = "scan"
    => /\ ~ret.err
       /\ \A i \in DOMAIN ret.value :
            ret.start <= ret.value[i][1] /\ ret.value[i][1] < ret.end
       /\ \A i, j \in DOMAIN ret.value : i < j => ret.value[i][1] < ret.value[j][1]

\* C9: when a merge step has removed a table from the TableSet or unlinked
\* its file, the TableSet holds a replacement table that contains every key
\* whose latest record among the input tables is live, with that value; for
\* either checksum algorithm.
C9_RemovedOnlyAfterReplacement ==
  (/\ ret.op = "merge"
   /\ \E i \in DOMAIN ret.inputs :
        \/ ret.inputs[i] \notin DOMAIN sst.dir
        \/ \A j \in DOMAIN sst.sst_files : sst.sst_files[j].id # ret.inputs[i])
    => \E j \in DOMAIN sst.sst_files :
         LET id == sst.sst_files[j].id
         IN /\ id \in DOMAIN sst.dir
            /\ id \notin Range(ret.inputs)
            /\ \A k \in Keys :
                 LET r == LatestAmong(ret.inputs, ret.tables, k)
                 IN (IsSome(r) /\ r[1].value_len > 0)
                      => \E x \in Range(Flatten(sst.dir[id].blocks)) :
                           /\ x.key = k
                           /\ x.value = r[1].value
                           /\ x.value_len = r[1].value_len

\* C10: get(K) returns after a merge step what it returned before it, for
\* every key K: no live key is lost and no deleted or superseded value
\* becomes visible.
C10_MergeInvisible ==
  ret.op = "merge"
    => \A k \in Keys :
         EngineGet(memtable, sst, k, checksum_algorithm) = ret.before[k]

\* The table a successful merge step wrote: the last table of the TableSet.
OutputTable == sst.dir[sst.sst_files[Len(sst.sst_files)].id]

\* The tables of the selected group that hold key k, by position in the group.
HoldersOf(tables, k) == {i \in DOMAIN tables : k \in TableKeys(tables[i])}

\* The record of key k in the table the merger gives precedence to: the holder
\* with the highest position in the selected group.
WinnerByIndex(tables, k) ==
  LET holders == HoldersOf(tables, k)
      i == CHOOSE x \in holders : \A y \in holders : y <= x
  IN CHOOSE r \in Range(Flatten(tables[i].blocks)) : r.key = k

\* C11: when a merge step has merged a group chosen by size-tiered selection
\* and a key occurs in several of the selected tables, the output table holds
\* the value from the most recently created of those tables (the latest in
\* the TableSet), whatever the relative file sizes of the tables.
C11_MergeKeepsLatest ==
  (ret.op = "merge" /\ ~ret.err)
    => \A k \in Keys :
         LET r == LatestAmong(ret.inputs, ret.tables, k)
         IN (Cardinality(HoldersOf(ret.tables, k)) >= 2 /\ r[1].value_len > 0)
              => \E x \in Range(Flatten(OutputTable.blocks)) :
                   /\ x.key = k
                   /\ x.value = r[1].value
                   /\ x.value_len = r[1].value_len

\* C12: after a merge step on a selected group G the output table holds no
\* tombstone and no key twice, and its keys are exactly the keys of G whose
\* winning version (that of the last table of G holding the key) is a live
\* value; when no live entry remains the inputs are dropped and no new table
\* is added.
C12_MergeOutputLiveOnly ==
  ret.op = "merge"
    => LET live == {k \in Keys : /\ HoldersOf(ret.tables, k) # {}
                                 /\ WinnerByIndex(ret.tables, k).value_len > 0}
           held == {id \in DOMAIN sst.dir : id \notin Range(ret.inputs)}
           fresh == {sst.sst_files[j].id : j \in DOMAIN sst.sst_files}
                      \ DOMAIN ret.dir_before
       IN IF live = {}
          THEN /\ fresh = {}
               /\ \A i \in DOMAIN ret.inputs : ret.inputs[i] \notin DOMAIN sst.dir
          ELSE /\ Cardinality(fresh) = 1
               /\ LET out == Flatten(sst.dir[CHOOSE id \in fresh : TRUE].blocks)
                  IN /\ {x.key : x \in Range(out)} = live
                     /\ \A i \in DOMAIN out : out[i].value_len > 0
                     /\ \A i, j \in DOMAIN out : i # j => out[i].key # out[j].key

\* The records of the segment files, read segment by segment in id order.
DurableLog == RecoverList(wal.dir, SortedIds(DOMAIN wal.dir), checksum_algorithm)

\* C13: in every interleaving of concurrent put/delete calls the records in
\* the log, read in append order across segments, have strictly increasing
\* (hence unique) sequence numbers: a call that obtained a smaller sequence
\* number never appends after a call that obtained a larger one.
C13_DurableOrderIsSequenceOrder ==
  \A i, j \in DOMAIN DurableLog :
    i < j => DurableLog[i].sequence < DurableLog[j].sequence

\* C14: in every interleaving of concurrent callers of WalManager::sync, a
\* caller that registered on the rendezvous before another caller completed
\* its fdatasync and commit_all (so that its registration was drained by that
\* caller) observes that single fdatasync and issues none of its own.
C14_SingleFdatasync ==
  ret.op = "fdatasync" => ~ret.drained

\* C15: every call to WalManager::sync eventually returns, in every
\* interleaving of concurrent callers and also when the flush or the
\* fdatasync of a caller fails and that caller returns without commit_all;
\* a caller that found pending_count() = 0 after registering already holds
\* the notification of the caller that drained it.
C15_SyncReturns ==
  /\ [](\A p \in Procs : procs[p].pc = "wait" => procs[p].permit)
  /\ \A p \in Procs :
       (procs[p].pc = "register") ~> (procs[p].pc \in {"apply", "idle"})

\* One caller's fdatasync has failed and it has returned without commit_all
\* while another caller is in notified().await.
C15_Witness ==
  /\ ret.op \in {"put", "delete"}
  /\ ret.err
  /\ ret.stage = "fdatasync"
  /\ \E p \in Procs : procs[p].pc = "wait"

\* get(key) meets a damaged record: the memtable has no entry of the key and,
\* walking the tables newest first, a table that passes the range and Bloom
\* tests holds, in the data block the index selects, a damaged record at or
\* before the place of the key, while no newer table yields a value.
PathDamaged(key) ==
  LET Candidate(i) == InRange(sst.sst_files[i], key) /\ MayContain(sst.sst_files[i], key)
      Block(i) == LET f == sst.dir[sst.sst_files[i].id]
                      t == TargetBlock(f.index, key)
                  IN IF t = 0 THEN <<>> ELSE BlockAt(f, f.index[t].offset)
      Damaged(i) == \E x \in DOMAIN Block(i) :
                      /\ Block(i)[x].checksum = <<"damaged">>
                      /\ \A y \in 1..(x - 1) : Block(i)[y].key # key
  IN /\ ~IsSome(MemGet(memtable, key))
     /\ \E i \in DOMAIN sst.sst_files :
          /\ Candidate(i)
          /\ Damaged(i)
          /\ \A j \in (i + 1)..Len(sst.sst_files) :
               Candidate(j) =>
                 ~IsSome(SstRead(sst.dir, sst.sst_files[j], key, checksum_algorithm).value)

\* C16: if a record on the lookup path of get(K), in the data block selected
\* by the index, fails checksum verification, get returns the
\* ChecksumMismatch error; it does not return None and does not fall through
\* to the value of an older table.
C16_CorruptionReported ==
  (ret.op = "get" /\ PathDamaged(ret.key)) => ret.err

\* C17: a put(K, V) or delete(K) that returns an error has no effect: get(K)
\* right after it returns what it returned before the call, and after later
\* writes, a close and a restart get(K) returns the outcome of the last
\* acknowledged mutation of K for every key.
C17_FailedWriteHasNoEffect ==
  /\ (ret.op \in {"put", "delete"} /\ ret.err)
       => EngineGet(memtable, sst, ret.key, checksum_algorithm) = ret.before
  /\ ret.op = "new"
       => \A k \in Keys :
            EngineGet(memtable, sst, k, checksum_algorithm) = Ok(Outcome(last[k]))

\* The first group of the sweep over a size-sorted list: the longest prefix
\* whose sizes are within size_ratio times the size of its first file.
FirstGroup(sorted) ==
  LET within == {n \in DOMAIN sorted :
                   \A i \in 1..n : sorted[i].size * size_ratio[2]
                                     <= size_ratio[1] * sorted[1].size}
  IN SubSeq(sorted, 1, Cardinality(within))

\* C18: select_size_tiered returns the first (smallest-size) group of the
\* size-sorted sweep when it has at least min_threshold members and the empty
\* selection otherwise, also when a later group has at least min_threshold
\* members; with fewer than min_threshold tables it returns the empty
\* selection.
C18_SelectsFirstGroupOnly ==
  ret.op = "select"
    => LET first == FirstGroup(SortBySize(ret.files))
       IN ret.value = IF Len(ret.files) >= min_threshold /\ Len(first) >= min_threshold
                      THEN first ELSE <<>>

\* C19: for every non-empty list of entries sorted strictly ascending by
\* key, the table written by write_sst answers read(K) = Some(V) for each
\* entry (K, Some(V)), None for each tombstone and None for every key not in
\* the list, also when the entries span more than one data block.
C19_TableRoundTrip ==
  ret.op = "write_sst"
    => \A k \in Keys :
         LET hits == {i \in DOMAIN ret.entries : ret.entries[i][1] = k}
         IN ret.reads[k] = Ok(IF hits = {} THEN None
                              ELSE ret.entries[CHOOSE i \in hits : TRUE][2])

\* C20: for every key K and every value V, the empty value included,
\* SstEntry::deserialize(SstEntry::serialize(K, Some(V))) yields key K and
\* value Some(V), and a tombstone (K, None) round-trips to (K, None); a
\* stored empty value is not turned into a tombstone.
C20_RecordRoundTrip ==
  ret.op = "entry"
    => /\ ret.decoded.ok
       /\ ret.decoded.key = ret.key
       /\ ret.decoded.value = ret.value

\* C21: for every key, value, timestamp, sequence number and operation,
\* WalEntry::deserialize(WalEntry::serialize(r)) succeeds and has the fields
\* of r; the serialized length is a multiple of 4096, holds header and
\* payload, and equals serialized_size(), also when header plus payload is
\* exactly a multiple of 4096 bytes.
C21_LogRecordRoundTrip ==
  ret.op = "wal_entry"
    => /\ ret.decoded.ok
       /\ ret.decoded.entry = ret.entry
       /\ ret.size % PAGE_SIZE = 0
       /\ ret.size >= WalDataSize(ret.entry.key, ret.entry.value)
       /\ ret.size = WalSerializedSize(ret.entry)

\* A record whose header and payload fill one page exactly.
C21_Witness ==
  /\ ret.op = "wal_entry"
  /\ WalDataSize(ret.entry.key, ret.entry.value) = PAGE_SIZE
  /\ ret.size = PAGE_SIZE
  /\ ret.decoded.ok

\* C22: in every state and for every key K, the table walk of get(K) reads
\* no data block of a table whose Bloom filter answers false for K, and the
\* Bloom filter of every table of the TableSet, written in this run or loaded
\* by load_existing_files, answers true for every key the table holds.
C22_BloomPruning ==
  phase = "open"
    => \A i \in DOMAIN sst.sst_files :
         LET f == sst.sst_files[i]
         IN /\ \A key \in Keys :
                 ~BloomMayContain(f.bloom_filter, key)
                   => f.id \notin BlocksRead(sst, Len(sst.sst_files), key,
                                             checksum_algorithm)
            /\ f.id \in DOMAIN sst.dir
                 => \A key \in TableKeys(sst.dir[f.id]) :
                      BloomMayContain(f.bloom_filter, key)

\* After a restart a loaded table answers false for a key the memtable does
\* not hold and true for a key it stores, and get reads a block of it for
\* a stored key.
C22_Witness ==
  /\ phase = "open"
  /\ restarts = 1
  /\ \E i \in DOMAIN sst.sst_files :
       LET f == sst.sst_files[i]
       IN /\ \E key \in Keys : /\ ~IsSome(MemGet(memtable, key))
                               /\ ~BloomMayContain(f.bloom_filter, key)
          /\ \E key \in TableKeys(sst.dir[f.id]) :
               f.id \in BlocksRead(sst, Len(sst.sst_files), key, checksum_algorithm)

C24_ExpiredSecretNotServed ==
  (/\ ret.op = "agent_get"
   /\ IsSome(ret.deadline)
   /\ ret.now > ret.deadline[1])
    => ret.reply = "ERR no such key"

\* C25: every record of the log starts at a file offset that is a multiple
\* of 4096, in the segment files and in the buffer of the current segment,
\* also after WalManager has reopened a segment whose length is not a
\* multiple of 4096.
C25_RecordsPageAligned ==
  /\ \A id \in DOMAIN wal.dir : \A r \in wal.dir[id].recs : r.off % PAGE_SIZE = 0
  /\ phase = "open"
       => \A r \in Placed(wal.current_segment.buffer, wal.current_segment.offset) :
            r.off % PAGE_SIZE = 0

\* C26: when a segment was truncated before the first restart, every put
\* acknowledged in the run after that restart is in the list the recovery of
\* the second restart returns.
C26_WritesAfterTornTailDurable ==
  (/\ restarts = 2
   /\ damages > 0
   /\ ret.op = "new")
    => /\ ~ret.err
       /\ \A e \in acked : e.timestamp = 1 => e \in Range(recovered)

\* C27: in every state of an open engine, also right after
\* load_existing_files, sst_files lists the tables in ascending id.
C27_TableSetInCreationOrder ==
  phase = "open"
    => \A i, j \in DOMAIN sst.sst_files :
         i < j => sst.sst_files[i].id < sst.sst_files[j].id

\* C28: a key that was written once, by a put that has returned Ok, and that
\* no call in progress touches is read back with the value of that put,
\* whatever flush of the memtable ran on behalf of another call meanwhile.
C28_AckedDuringFlushVisible ==
  \A e \in acked :
    (/\ e.op_type = OpPut
     /\ \A i \in DOMAIN log : log[i].key = e.key => log[i] = e
     /\ \A p \in Procs : procs[p].pc # "idle" => procs[p].entry.key # e.key)
      => EngineGet(memtable, sst, e.key, checksum_algorithm) = Ok(Some(e.value))

\* C29: when every call has returned and the memtable has not been cleared
\* (no table was written), the memtable entry of each key carries the largest
\* sequence number among the acknowledged mutations of the key, and get
\* returns the outcome of that mutation.
C29_MemtableLatestSequenceWins ==
  (/\ \A p \in Procs : procs[p].pc = "idle"
   /\ sst.sst_files = <<>>
   /\ restarts = 0)
    => \A k \in Keys :
         LET ms == {e \in acked : e.key = k}
             top == CHOOSE e \in ms : \A o \in ms : o.sequence <= e.sequence
         IN ms # {}
              => /\ IsSome(MemGet(memtable, k))
                 /\ MemGet(memtable, k)[1].sequence = top.sequence
                 /\ EngineGet(memtable, sst, k, checksum_algorithm)
                      = Ok(IF top.op_type = OpPut THEN Some(top.value) ELSE None)

\* C30: when an engine is opened on a directory right after close(), get(K)
\* returns for every key K what get(K) returned immediately before close().
C30_RestartKeepsReads ==
  (/\ ret.op = "new"
   /\ ~ret.err
   /\ IsSome(ret.before))
    => \A k \in Keys :
         EngineGet(memtable, sst, k, checksum_algorithm) = ret.before[1][k]

\* C31: every table of the TableSet, written by a memtable flush or by the
\* merger, holds its records in strictly ascending key order (so no key
\* twice); min_key and max_key of its metadata and of its file are the first
\* and the last key of the records, and num_entries is their number.
C31_TableInvariants ==
  \A i \in DOMAIN sst.sst_files :
    LET f == sst.sst_files[i]
        recs == Flatten(sst.dir[f.id].blocks)
    IN f.id \in DOMAIN sst.dir
         => /\ recs # <<>>
            /\ \A a, b \in DOMAIN recs : a < b => recs[a].key < recs[b].key
            /\ f.min_key = recs[1].key
            /\ f.max_key = recs[Len(recs)].key
            /\ sst.dir[f.id].min_key = f.min_key
            /\ sst.dir[f.id].max_key = f.max_key
            /\ f.num_entries = Len(recs)
            /\ sst.dir[f.id].header.num_entries = Len(recs)

\* The merger has written a table of two records.
C31_Witness ==
  /\ ret.op = "merge"
  /\ ~ret.err
  /\ \E i \in DOMAIN sst.sst_files :
       Len(Flatten(sst.dir[sst.sst_files[i].id].blocks)) = 2

\* C32: a step of a running engine that seals the current segment (appends its
\* id to the segment list and takes a new id) finds that segment full:
\* offset + buffered bytes >= wal_segment_size.  Two appenders that saw the
\* same full segment therefore seal once, and no empty segment is sealed.
C32_RotationOnlyWhenFull ==
  [][(/\ restarts' = restarts
      /\ wal'.next_segment_id = wal.next_segment_id + 1
      /\ wal'.segments = Append(wal.segments, wal.current_segment.file_id))
       => SegIsFull(wal.current_segment)]_vars

\* C33: when a merge step has returned an error, the files of the sst
\* directory are those of before the step and every table selected as input
\* is still in the TableSet.
C33_FailedMergeChangesNothing ==
  (ret.op = "merge" /\ ret.err)
    => /\ sst.dir = ret.dir_before
       /\ \A i \in DOMAIN ret.inputs :
            \E j \in DOMAIN sst.sst_files : sst.sst_files[j].id = ret.inputs[i]

(***************************************************************************)
(* SpecPartial: single-caller puts, one of which goes down inside          *)
(* write_sst, and a restart.                                               *)
(***************************************************************************)
\* The file write_sst leaves when the process stops after it wrote the
\* placeholder of zeros and the first n data blocks: no bloom filter, no index,
\* and zeros where the header will be.
PartialSst(entries, algo, n) ==
  LET full == WriteSst([sst_files |-> <<>>, next_id |-> 1, dir |-> <<>>], entries, algo)
      disk_file == full.sst.dir[1]
      blocks == SubSeq(disk_file.blocks, 1, n)
      data_start == HEADER_SIZE + KeyLen(disk_file.min_key) + KeyLen(disk_file.max_key)
  IN [header |-> [magic |-> 0, version |-> 0, num_entries |-> 0,
                  index_offset |-> 0, bloom_offset |-> 0,
                  min_key_len |-> 0, max_key_len |-> 0],
      min_key |-> disk_file.min_key, max_key |-> disk_file.max_key,
      blocks |-> blocks,
      bloom |-> [num_bits |-> 0, num_hashes |-> 0, bits_len |-> 0, bits |-> {}],
      index |-> <<>>,
      len |-> data_start + BlocksLen([i \in DOMAIN blocks |-> blocks[i].recs])]

\* StorageEngine::put(key, value) that fills the memtable and goes down inside
\* write_sst, after the file was created and before the header is written: the
\* record is in the log, the put has not returned.
PutCrash(key, value) ==
  /\ phase = "open"
  /\ \A p \in Procs : procs[p] = Idle
  /\ Len(log) < MaxOps
  /\ restarts < MaxRestarts
  /\ LET seq == sequence
         entry == new_put(key, value, seq)
         appended == WalAppend(wal, entry, checksum_algorithm)
         m == MemPut(memtable, key, value, seq)
         entries == MemGetAllEntries(m)
     IN /\ MemIsFull(m)
        /\ sequence' = seq + 1
        /\ wal' = WalSync(appended.wal)
        /\ log' = Append(log, entry)
        /\ \E n \in 0..1 :
             sst' = [sst EXCEPT
                       !.next_id = @ + 1,
                       !.dir = (sst.next_id :>
                                  PartialSst(entries, checksum_algorithm, n)) @@ @]
  /\ memtable' = MemNew
  /\ phase' = "down"
  /\ running' = FALSE
  /\ ret' = [op |-> "crash"]
  /\ UNCHANGED <<checksum_algorithm, agent, compactor, reader, recovered, last, acked, restarts, damages,
                 callers>>

PutCrashAny == \E key \in Keys, value \in Values : PutCrash(key, value)

NextPartial == PutAny \/ PutCrashAny \/ Reopen

SpecPartial == Init /\ [][NextPartial]_vars

\* The ids of the files of the sst directory that write_sst left unfinished.
PartialIds == {id \in DOMAIN sst.dir : sst.dir[id].header.magic # SST_MAGIC}

\* C34: StorageEngine::new on a directory that holds a file write_sst left
\* unfinished succeeds, lists no such file in the TableSet, and get returns
\* the value of the latest acknowledged put of every key.
C34_PartialTableIgnored ==
  (ret.op = "new" /\ PartialIds # {})
    => /\ ~ret.err
       /\ \A i \in DOMAIN sst.sst_files : sst.sst_files[i].id \notin PartialIds
       /\ \A k \in Keys :
            last[k].op = "put"
              => EngineGet(memtable, sst, k, checksum_algorithm) = Ok(Some(last[k].value))

(***************************************************************************)
(* SpecBig: single-caller puts whose value may be longer than the decoders *)
(* accept, get and close.                                                  *)
(***************************************************************************)
PutBigAny == \E key \in Keys, value \in Values \cup {5} : Put(key, value)

NextBig == PutBigAny \/ GetAny \/ Close

SpecBig == Init /\ [][NextBig]_vars

\* C35: every record whose put or delete returned Ok is decoded by
\* WalEntry::deserialize from the bytes WalEntry::serialize wrote for it (a
\* put of a value longer than MAX_VALUE_LEN is therefore never acknowledged).
C35_AckedRecordsDecodable ==
  \A e \in acked :
    LET bytes == WalSerialize(e, checksum_algorithm)
    IN WalDeserialize(bytes, bytes.size, checksum_algorithm).ok

\* The records appended to the log since the last restart.
AssignedAfterRestart == {e \in Range(log) : e.timestamp = restarts}

\* C36 as stated: right after StorageEngine::new the sequence counter is the
\* largest recovered sequence number plus 1 when a record was recovered, and 0
\* when none was; every sequence number assigned since is larger than every
\* recovered one.
C36_NextSequenceZeroWhenEmpty ==
  restarts > 0
    => /\ ret.op = "new"
            => IF recovered = <<>> THEN sequence = 0
               ELSE \E i \in DOMAIN recovered :
                      /\ sequence = recovered[i].sequence + 1
                      /\ \A j \in DOMAIN recovered :
                           recovered[j].sequence <= recovered[i].sequence
       /\ \A e \in AssignedAfterRestart :
            \A j \in DOMAIN recovered : e.sequence > recovered[j].sequence

\* C36 amended: as above, with the counter equal to 1 when no record was
\* recovered.
C36_NextSequenceAfterRecovery ==
  restarts > 0
    => /\ ret.op = "new"
            => IF recovered = <<>> THEN sequence = 1
               ELSE \E i \in DOMAIN recovered :
                      /\ sequence = recovered[i].sequence + 1
                      /\ \A j \in DOMAIN recovered :
                           recovered[j].sequence <= recovered[i].sequence
       /\ \A e \in AssignedAfterRestart :
            \A j \in DOMAIN recovered : e.sequence > recovered[j].sequence

\* Two records were recovered and a sequence number was assigned after the
\* restart.
C36_Witness ==
  /\ restarts > 0
  /\ Len(recovered) = 2
  /\ AssignedAfterRestart # {}

(***************************************************************************)
(* The task of compact_loop, step by step.  A step of the loop has no      *)
(* await between the selection and the removal of the last input, so       *)
(* JoinHandle::abort ends the task only in its sleep; a step that another  *)
(* worker thread is running goes on to its end.                            *)
(***************************************************************************)
\* merge_sst_files_impl up to and including write_sst: the TableSet and the
\* directory after it, and whether the removal of the inputs follows.
MergeWrite(s, files, algo) ==
  LET reads == [i \in DOMAIN files |-> ReadAllEntriesFromSst(s.dir, files[i])]
      merged == MergedEntries([i \in DOMAIN files |-> reads[i].value])
      live == {k \in Keys : IsSome(merged[k]) /\ IsSome(merged[k][1])}
      final_entries == SeqOfKeys(live, [k \in live |-> <<k, merged[k][1]>>])
  IN IF files = <<>> \/ \E i \in DOMAIN files : reads[i].err
     THEN [err |-> TRUE, sst |-> s, remove |-> FALSE]
     ELSE IF final_entries = <<>>
          THEN [err |-> TRUE, sst |-> s, remove |-> TRUE]
          ELSE [err |-> FALSE, sst |-> WriteSst(s, final_entries, algo).sst,
                remove |-> TRUE]

\* compact_loop: the task leaves its sleep, finds running set and selects the
\* tables of its step.
CompactSelect ==
  /\ compactor.pc = "sleep"
  /\ ~compactor.aborted
  /\ running
  /\ LET files == SelectFilesForCompaction(sst)
     IN /\ files # <<>>
        /\ compactor' = [compactor EXCEPT !.pc = "merge", !.files = files]
  /\ UNCHANGED <<checksum_algorithm, agent, reader, wal, memtable, sst, sequence, running,
                 phase, ret, recovered, last, log, acked, restarts, damages, callers>>

\* merge_sst_files_impl: the inputs are read and merged and the output is
\* written.
CompactMerge ==
  /\ compactor.pc = "merge"
  /\ LET r == MergeWrite(sst, compactor.files, checksum_algorithm)
     IN /\ sst' = r.sst
        /\ compactor' = IF r.remove
                        THEN [compactor EXCEPT !.pc = "remove", !.left = compactor.files]
                        ELSE [compactor EXCEPT !.pc = "sleep", !.files = <<>>]
  /\ UNCHANGED <<checksum_algorithm, agent, reader, wal, memtable, sequence, running,
                 phase, ret, recovered, last, log, acked, restarts, damages, callers>>

\* merge_sst_files_impl: the next input leaves the TableSet and its file is
\* unlinked; after the last one the task goes to sleep.
CompactRemove ==
  /\ compactor.pc = "remove"
  /\ sst' = RemoveFiles(sst, <<Head(compactor.left)>>)
  /\ compactor' = IF Tail(compactor.left) = <<>>
                  THEN [compactor EXCEPT !.pc = "sleep", !.files = <<>>, !.left = <<>>]
                  ELSE [compactor EXCEPT !.left = Tail(@)]
  /\ UNCHANGED <<checksum_algorithm, agent, reader, wal, memtable, sequence, running,
                 phase, ret, recovered, last, log, acked, restarts, damages, callers>>

CompactStep == CompactSelect \/ CompactMerge \/ CompactRemove

(***************************************************************************)
(* SpecStop: single-caller puts and close, with the task of compact_loop   *)
(* taking its steps in between.                                            *)
(***************************************************************************)
NextStop == PutAny \/ Close \/ CompactStep

SpecStop == Init /\ [][NextStop]_vars

\* C37: once close has returned, no step changes the TableSet or the files of
\* the sst directory.
C37_MergerQuietAfterClose ==
  [][phase = "closed" => sst' = sst]_vars

(***************************************************************************)
(* StorageEngine::get, step by step: the memtable lookup and the snapshot  *)
(* of the TableSet, then one table of the snapshot per step.               *)
(***************************************************************************)
\* get(key) up to get_all_files: a hit in the memtable returns at once;
\* otherwise the call holds its clone of sst_files.  at_start is what a get
\* run without interleaving returns in this state.
GetStart(key) ==
  /\ phase = "open"
  /\ reader.pc = "idle"
  /\ LET at_start == EngineGet(memtable, sst, key, checksum_algorithm)
     IN IF IsSome(MemGet(memtable, key))
        THEN /\ ret' = [op |-> "get_done", key |-> key, err |-> FALSE,
                        value |-> MemGet(memtable, key)[1].value,
                        at_start |-> at_start]
             /\ UNCHANGED reader
        ELSE /\ reader' = [pc |-> "walk", key |-> key, files |-> sst.sst_files,
                           i |-> Len(sst.sst_files), at_start |-> at_start]
             /\ UNCHANGED ret
  /\ UNCHANGED <<checksum_algorithm, agent, compactor, wal, memtable, sst, sequence,
                 running, phase, recovered, last, log, acked, restarts, damages, callers>>

GetStartAny == \E key \in Keys : GetStart(key)

\* One turn of the loop of get over its snapshot, newest table first:
\* SstManager::read opens the file by its path in the directory as it is now.
GetWalk ==
  /\ reader.pc = "walk"
  /\ LET key == reader.key
         done(r) == /\ ret' = [op |-> "get_done", key |-> key, err |-> r.err,
                               value |-> r.value, at_start |-> reader.at_start]
                    /\ reader' = NoReader
         next == /\ reader' = [reader EXCEPT !.i = @ - 1]
                 /\ UNCHANGED ret
     IN IF reader.i = 0 THEN done(Ok(None))
        ELSE LET f == reader.files[reader.i]
             IN IF InRange(f, key) /\ MayContain(f, key)
                THEN LET r == SstRead(sst.dir, f, key, checksum_algorithm)
                     IN IF r.err THEN done(Err)
                        ELSE IF IsSome(r.value) THEN done(r)
                        ELSE next
                ELSE next
  /\ UNCHANGED <<checksum_algorithm, agent, compactor, wal, memtable, sst, sequence,
                 running, phase, recovered, last, log, acked, restarts, damages, callers>>

(***************************************************************************)
(* SpecRead: puts of non-empty values while no get is in progress, calls   *)
(* of get, and the task of compact_loop taking its steps in between.       *)
(***************************************************************************)
PutQuiet ==
  /\ reader.pc = "idle"
  /\ \E key \in Keys, value \in Values \ {0} : Put(key, value)

NextRead == PutQuiet \/ GetStartAny \/ GetWalk \/ CompactStep

SpecRead == Init /\ [][NextRead]_vars

\* C38: a get that ran while the merger took its steps returns without error,
\* and returns what a get run without interleaving returns at the start or at
\* the end of the call.
C38_GetDuringMergeSucceeds ==
  ret.op = "get_done"
    => /\ ~ret.err
       /\ \/ ret.value = ret.at_start.value
          \/ ret.value = EngineGet(memtable, sst, ret.key, checksum_algorithm).value

(***************************************************************************)
(* SpecMergeFair: SpecMerge with a merger that keeps taking its turns: the *)
(* task of compact_loop sleeps 10 seconds between two steps and the        *)
(* runtime wakes it when the timer fires, so a merge step that stays       *)
(* possible is eventually taken.  The condition is WF_vars(MergeStep)      *)
(* written out, with the guard of MergeStep for ENABLED <<MergeStep>>_vars *)
(* and the result it leaves in ret for <<MergeStep>>_vars.                 *)
(***************************************************************************)
\* A merge step is possible: the guard of MergeStep.
MergeEnabled ==
  /\ phase = "open"
  /\ running
  /\ \A p \in Procs : procs[p] = Idle
  /\ SelectFilesForCompaction(sst) # <<>>

\* The step is a merge step: of the steps of NextMerge, only MergeStep leaves
\* a result of merge_sst_files_impl in ret.
MergeTaken == ret'.op = "merge"

SpecMergeFair ==
  Init /\ [][NextMerge]_vars /\ ([]<>(~MergeEnabled) \/ []<><<MergeTaken>>_vars)

\* C39: every merge step that returns Ok leaves fewer tables than it found;
\* a merge step that returns an error leaves the merger running; and once the
\* writes have ended the selection is empty from some step on, for ever.
C39_MergerTerminates ==
  /\ [][(ret'.op = "merge" /\ ret' # ret /\ ~ret'.err)
          => Len(sst'.sst_files) < Len(sst.sst_files)]_vars
  /\ [](ret.op = "merge" /\ ret.err => running)
  /\ <>[](SelectFilesForCompaction(sst) = <<>>)

\* A merge step has returned Ok and the selection that follows it is empty.
C39_Witness ==
  /\ ret.op = "merge"
  /\ ~ret.err
  /\ sst.sst_files # <<>>
  /\ SelectFilesForCompaction(sst) = <<>>

(***************************************************************************)
(* SpecLong: single-caller puts whose value may be longer than a data      *)
(* block and is within MAX_VALUE_LEN, and get.                             *)
(***************************************************************************)
PutLongAny == \E key \in Keys, value \in Values \cup {6} : Put(key, value)

NextLong == PutLongAny \/ GetAny

SpecLong == Init /\ [][NextLong]_vars

\* C40: in every table file, each data block holds at most DATA_BLOCK_SIZE
\* bytes and each index entry names a block size of at most DATA_BLOCK_SIZE.
C40_BlocksWithinBlockSize ==
  \A id \in DOMAIN sst.dir :
    /\ \A i \in DOMAIN sst.dir[id].blocks :
         BufLen(sst.dir[id].blocks[i].recs) <= DATA_BLOCK_SIZE
    /\ \A i \in DOMAIN sst.dir[id].index :
         sst.dir[id].index[i].size <= DATA_BLOCK_SIZE

====
